---------------------------- MODULE Spec2Model ----------------------------
(***************************************************************************)
(* A model of the graph traversal and shortest-path engine of              *)
(* structured-dsa-python:                                                  *)
(*   - Heap / PriorityQueue of dijkstra-heap-optimization/graph_heap_pq.py *)
(*   - Heap / PriorityQueue of                                             *)
(*     dijkstra-heap-optimization/heap_priority_queue.py (hpq_ prefix)     *)
(*   - the weighted Graph of graph_heap_pq.py (bfs, dijkstraP)             *)
(*   - the unweighted Graph of graph-search-algorithms/labyrinth_graph.py  *)
(*     (Lab_ prefix)                                                       *)
(*                                                                         *)
(* Conventions.  Python lists are sequences; a Python index i is the       *)
(* position i + 1 of the sequence (At, SetAt, Swap).  A heap element is a  *)
(* pair <<key, item>> compared as Python compares tuples (first the keys,  *)
(* then the items); the integer x of the heap demos is the pair <<x, 0>>,  *)
(* whose order and equality are those of x.  math.inf is INF, a number     *)
(* above every finite distance, with Plus saturating at it.  A raised      *)
(* exception is recorded as the err of the call (NoErr otherwise) and      *)
(* leaves the state as the code leaves it.                                 *)
(***************************************************************************)
EXTENDS Integers, Sequences, FiniteSets, TLC

VARIABLES
    \* ---- Heap / PriorityQueue object under test
    data,        \* Heap.data, the backing array
    config,      \* Heap.config: TRUE max-heap, FALSE min-heap
    log,         \* history: the enqueue / dequeue calls that returned, in order
    last,        \* history: the last call [op, arg, ret, err, prev]
    \* ---- Graph instance
    vertexes,    \* Graph.vertexes
    relations,   \* Graph.relations, in iteration order
    directed,    \* Graph.directed
    view,        \* Graph.view
    adjList,     \* Graph.adjList
    encoder,     \* Graph.encoder
    decoder,     \* Graph.decoder
    adjMat,      \* Graph.adjMat
    weight,      \* Graph._weight
    v_props,     \* Graph.v_props (an attribute of the instance)
    \* ---- traversal calls in progress
    call,        \* the locals of each call: [pc, kind, src, queue, u, rest, QS,
                 \* in_queue, ret, err]
    \* ---- LinkedListStack of double-linkedlist/lifo.py
    top,         \* LinkedListStack.top: a Node, or None
    size,        \* LinkedListStack.size
    nodes,       \* the Node objects alive: [value, next] of each
    \* ---- DisjointSets of hash-table-collision-resolution/disjoint_sets.py
    sets,        \* DisjointSets.sets, a list of sets
    \* ---- arguments a caller keeps a reference to
    labyrinth,   \* the grid given to convert_to_graph, rows and columns from 0
    lst_in       \* the list given to heapSort

heapVars  == <<data, config, log, last>>
graphVars == <<vertexes, relations, directed, view, adjList, encoder, decoder,
               adjMat, weight>>
otherVars == <<top, size, nodes, sets, labyrinth, lst_in>>
vars      == <<heapVars, graphVars, v_props, call, otherVars>>

-----------------------------------------------------------------------------
(* Values *)

\* None, where a vertex is expected (the vertices are the naturals)
None == -1
\* no exception was raised
NoErr == "NoErr"
WHITE == "white"
BLACK == "black"
GRAY == "gray"
INF == 1000

\* math.inf + w is math.inf
Plus(a, b) == IF a >= INF THEN INF ELSE a + b

\* Python list indexing, 0-based
At(d, i) == d[i + 1]
SetAt(d, i, x) == [d EXCEPT ![i + 1] = x]
Swap(d, i, j) == [d EXCEPT ![i + 1] = d[j + 1], ![j + 1] = d[i + 1]]

\* list.index(x): the first Python index holding x (x is in d)
IndexOf(d, x) == (CHOOSE i \in 1..Len(d) :
                     d[i] = x /\ \A j \in 1..(i - 1) : d[j] # x) - 1
\* x in list
Contains(d, x) == \E i \in 1..Len(d) : d[i] = x
\* a remove that drops every occurrence of x
Remove_all(d, x) == SelectSeq(d, LAMBDA e : e # x)

\* list.remove(x): drop the first occurrence (x is in d)
Remove(d, x) ==
    LET k == IndexOf(d, x) + 1
    IN  [i \in 1..(Len(d) - 1) |-> IF i < k THEN d[i] ELSE d[i + 1]]

\* a < b on heap elements (Python tuple comparison)
Lt(a, b) == a[1] < b[1] \/ (a[1] = b[1] /\ a[2] < b[2])

\* all sequences over S of length at most n
SeqUpTo(S, n) == UNION {[1..k -> S] : k \in 0..n}

-----------------------------------------------------------------------------
(* Heap of graph_heap_pq.py *)

left(index) == 2 * index + 1
right(index) == 2 * (index + 1)
parent(index) == (index - 1) \div 2

RECURSIVE max_heapify(_, _)
max_heapify(d, index) ==
    LET left_index == left(index)
        right_index == right(index)
        l1 == IF left_index < Len(d) /\ Lt(At(d, index), At(d, left_index))
              THEN left_index ELSE index
        largest_index ==
              IF right_index < Len(d) /\ Lt(At(d, l1), At(d, right_index))
              THEN right_index ELSE l1
    IN  IF largest_index # index
        THEN max_heapify(Swap(d, largest_index, index), largest_index)
        ELSE d

\* a min_heapify that never looks at the right child
RECURSIVE min_heapify_left_only(_, _)
min_heapify_left_only(d, index) ==
    LET left_index == left(index)
        smallest_index ==
              IF left_index < Len(d) /\ Lt(At(d, left_index), At(d, index))
              THEN left_index ELSE index
    IN  IF smallest_index # index
        THEN min_heapify_left_only(Swap(d, smallest_index, index),
                                   smallest_index)
        ELSE d

RECURSIVE min_heapify(_, _)
min_heapify(d, index) ==
    LET left_index == left(index)
        right_index == right(index)
        s1 == IF left_index < Len(d) /\ Lt(At(d, left_index), At(d, index))
              THEN left_index ELSE index
        smallest_index ==
              IF right_index < Len(d) /\ Lt(At(d, right_index), At(d, s1))
              THEN right_index ELSE s1
    IN  IF smallest_index # index
        THEN min_heapify(Swap(d, smallest_index, index), smallest_index)
        ELSE d

heapify(cfg, d, index) ==
    IF cfg THEN max_heapify(d, index) ELSE min_heapify(d, index)

\* the loop of build: for index in range(len // 2, -1, -1): heapify(index)
RECURSIVE buildLoop(_, _, _)
buildLoop(cfg, d, index) ==
    IF index < 0 THEN d
    ELSE buildLoop(cfg, heapify(cfg, d, index), index - 1)

\* build(data): cur is self.data, new the argument ([] keeps self.data)
build(cfg, cur, new) ==
    LET d == IF new # <<>> THEN new ELSE cur
    IN  buildLoop(cfg, d, Len(d) \div 2)

\* Heap(data, config): self.data = []; self.build(data[:])
HeapNew(cfg, lst) == build(cfg, <<>>, lst)

\* an insert that appends and does not rebuild
insert_append_only(cfg, d, new) == Append(d, new)

insert(cfg, d, new) == build(cfg, Append(d, new), <<>>)

\* update: the error it raises: the ValueError of data.index(old) is caught
\* (except ValueError: pass), so none
updateErr(d, old) == NoErr

\* update: index(old), overwrite, heapify(index); ValueError is swallowed
update(cfg, d, old, new) ==
    IF Contains(d, old)
    THEN LET index == IndexOf(d, old)
         IN  heapify(cfg, SetAt(d, index, new), index)
    ELSE d

\* delete: the error it raises, or None
deleteErr(d, to_delete) ==
    IF Len(d) = 0 THEN "The heap is empty."
    ELSE IF ~Contains(d, to_delete) THEN "The element is not in the heap."
    ELSE NoErr

\* a delete that empties the array when it raises
delete_clears(cfg, d, to_delete) ==
    IF deleteErr(d, to_delete) # NoErr THEN <<>>
    ELSE build(cfg, Remove(d, to_delete), <<>>)

delete(cfg, d, to_delete) ==
    IF deleteErr(d, to_delete) # NoErr THEN d
    ELSE build(cfg, Remove(d, to_delete), <<>>)

\* peek: return self.data[0], an IndexError on the empty list
peekErr(d) == IF Len(d) = 0 THEN "IndexError" ELSE NoErr
peek(d) == At(d, 0)

(* PriorityQueue of graph_heap_pq.py: data is the array of its Heap *)
enqueue(cfg, d, new) == insert(cfg, d, new)
\* dequeue: the error it raises, its own or the one of delete
dequeueErr(d) ==
    IF Len(d) = 0 THEN "Underflow" ELSE deleteErr(d, peek(d))
dequeueRet(d) == peek(d)
\* a dequeue that returns the root and deletes the last element of the array
dequeue_removes_last(cfg, d) == delete(cfg, d, At(d, Len(d) - 1))

dequeue(cfg, d) == delete(cfg, d, peek(d))
pqUpdate(cfg, d, old, new) == update(cfg, d, old, new)

-----------------------------------------------------------------------------
(* Heap and PriorityQueue of heap_priority_queue.py *)

\* min_heapify is a placeholder that returns at once
hpq_min_heapify(d, index) == d

hpq_heapify(cfg, d, index) ==
    IF cfg THEN max_heapify(d, index) ELSE hpq_min_heapify(d, index)

RECURSIVE hpq_buildLoop(_, _, _)
hpq_buildLoop(cfg, d, index) ==
    IF index < 0 THEN d
    ELSE hpq_buildLoop(cfg, hpq_heapify(cfg, d, index), index - 1)

hpq_build(cfg, cur, new) ==
    LET d == IF new # <<>> THEN new ELSE cur
    IN  hpq_buildLoop(cfg, d, Len(d) \div 2)

hpq_HeapNew(cfg, lst) == hpq_build(cfg, <<>>, lst)

hpq_insert(cfg, d, new) == hpq_build(cfg, Append(d, new), <<>>)

\* delete: the error it raises (the messages are in Spanish in the source)
hpq_deleteErr(d, to_delete) ==
    IF Len(d) = 0 THEN "El monton esta vacio"
    ELSE IF ~Contains(d, to_delete) THEN "El elemento no esta en el monton"
    ELSE NoErr

hpq_delete(cfg, d, to_delete) ==
    IF hpq_deleteErr(d, to_delete) # NoErr THEN d
    ELSE hpq_build(cfg, Remove(d, to_delete), <<>>)

hpq_enqueue(cfg, d, new) == hpq_insert(cfg, d, new)
hpq_dequeue(cfg, d) == hpq_delete(cfg, d, peek(d))

-----------------------------------------------------------------------------
(* Bounds of the heap specifications *)

MaxKey == 2      \* heap elements are the integers 0..MaxKey
MaxHeap == 3     \* at most MaxHeap elements are stored / enqueued

Elems == {<<k, 0>> : k \in 0..MaxKey}

Call(op, arg, r, err, prev) ==
    [op |-> op, arg |-> arg, ret |-> r, err |-> err, prev |-> prev]
NoCall == Call("new", <<>>, <<>>, NoErr, <<>>)

Enqs(l) == SelectSeq(l, LAMBDA e : e[1] = "enq")
Deqs(l) == SelectSeq(l, LAMBDA e : e[1] = "deq")

-----------------------------------------------------------------------------
(* Operations on the Heap / PriorityQueue object *)

Insert(x) ==
    /\ Len(data) < MaxHeap
    /\ data' = insert(config, data, x)
    /\ last' = Call("insert", x, <<>>, NoErr, data)
    /\ UNCHANGED <<config, log, graphVars, v_props, call, otherVars>>

Delete(x) ==
    /\ data' = delete(config, data, x)
    /\ last' = Call("delete", x, <<>>, deleteErr(data, x), data)
    /\ UNCHANGED <<config, log, graphVars, v_props, call, otherVars>>

Update(old, new) ==
    /\ data' = update(config, data, old, new)
    /\ last' = Call("update", <<old, new>>, <<>>, updateErr(data, old), data)
    /\ UNCHANGED <<config, log, graphVars, v_props, call, otherVars>>

\* peek() on the Heap
Peek ==
    /\ last' = Call("peek", <<>>, IF peekErr(data) # NoErr THEN <<>> ELSE peek(data),
                    peekErr(data), data)
    /\ UNCHANGED <<data, config, log, graphVars, v_props, call, otherVars>>

Enqueue(x) ==
    /\ Len(Enqs(log)) < MaxHeap
    /\ data' = enqueue(config, data, x)
    /\ log' = Append(log, <<"enq", x>>)
    /\ last' = Call("enqueue", x, <<>>, NoErr, data)
    /\ UNCHANGED <<config, graphVars, v_props, call, otherVars>>

Dequeue ==
    /\ IF dequeueErr(data) # NoErr
       THEN /\ last' = Call("dequeue", <<>>, <<>>, dequeueErr(data), data)
            /\ UNCHANGED <<data, log>>
       ELSE /\ data' = dequeue(config, data)
            /\ log' = Append(log, <<"deq", dequeueRet(data)>>)
            /\ last' = Call("dequeue", <<>>, dequeueRet(data), NoErr, data)
    /\ UNCHANGED <<config, graphVars, v_props, call, otherVars>>

hpq_Enqueue(x) ==
    /\ Len(data) < MaxHeap
    /\ data' = hpq_enqueue(config, data, x)
    /\ last' = Call("enqueue", x, <<>>, NoErr, data)
    /\ UNCHANGED <<config, log, graphVars, v_props, call, otherVars>>

hpq_Delete(x) ==
    /\ data' = hpq_delete(config, data, x)
    /\ last' = Call("delete", x, <<>>, hpq_deleteErr(data, x), data)
    /\ UNCHANGED <<config, log, graphVars, v_props, call, otherVars>>

hpq_Dequeue ==
    /\ IF Len(data) = 0
       THEN /\ last' = Call("dequeue", <<>>, <<>>, "Underflow", data)
            /\ UNCHANGED data
       ELSE /\ data' = hpq_dequeue(config, data)
            /\ last' = Call("dequeue", <<>>, peek(data), NoErr, data)
    /\ UNCHANGED <<config, log, graphVars, v_props, call, otherVars>>

-----------------------------------------------------------------------------
(* Graph of graph_heap_pq.py: construction.  A relation is <<u, v, w>>. *)

Range(f) == {f[x] : x \in DOMAIN f}

\* the orders in which a Python set holding S may be iterated
SetOrders(S) ==
    {f \in [1..Cardinality(S) -> S] : \A i, j \in DOMAIN f : i # j => f[i] # f[j]}

\* _buildRelation: the list e itself when directed, else a set holding each
\* relation and its reverse, whose iteration order is not fixed
buildRelation(dir, e) ==
    IF dir THEN {e}
    ELSE SetOrders(Range(e) \cup {<<el[2], el[1], el[3]>> : el \in Range(e)})

\* _buildAdjList
RECURSIVE adjListLoop(_, _)
adjListLoop(al, rels) ==
    IF rels = <<>> THEN al
    ELSE LET relation == Head(rels)
         IN  adjListLoop([al EXCEPT ![relation[1]] =
                              Append(@, <<relation[2], relation[3]>>)],
                         Tail(rels))

buildAdjList(vs, rels) == adjListLoop([v \in Range(vs) |-> <<>>], rels)

\* _buildEncoding: index counts from 0 in the order of vertexes
RECURSIVE encoderLoop(_, _, _)
encoderLoop(enc, vs, index) ==
    IF index >= Len(vs) THEN enc
    ELSE encoderLoop([enc EXCEPT ![At(vs, index)] = index], vs, index + 1)

buildEncoder(vs) == encoderLoop([v \in Range(vs) |-> 0], vs, 0)
buildDecoder(vs) == [index \in 0..(Len(vs) - 1) |-> At(vs, index)]

\* _buildAdjMatrix: zeros, then cell [row][col] = weight for each relation
RECURSIVE adjMatLoop(_, _, _)
adjMatLoop(mat, enc, rels) ==
    IF rels = <<>> THEN mat
    ELSE LET relation == Head(rels)
             row == enc[relation[1]]
             col == enc[relation[2]]
         IN  adjMatLoop([mat EXCEPT ![row][col] = relation[3]], enc, Tail(rels))

buildAdjMatrix(vs, enc, rels) ==
    adjMatLoop([i \in 0..(Len(vs) - 1) |-> [j \in 0..(Len(vs) - 1) |-> 0]],
               enc, rels)

\* _buildWeight: a dict keyed by (u, v); a later relation overwrites
RECURSIVE weightLoop(_, _)
\* a loop that keeps the weight of the first relation between two vertices
weightLoop_first_wins(wt, rels) ==
    IF rels = <<>> THEN wt
    ELSE LET relation == Head(rels)
             key == <<relation[1], relation[2]>>
         IN  weightLoop([k \in (DOMAIN wt) \cup {key} |->
                            IF k \in DOMAIN wt THEN wt[k] ELSE relation[3]],
                        Tail(rels))

\* for relation in self.relations: self._weight[(u, v)] = weight
weightLoop(wt, rels) ==
    IF rels = <<>> THEN wt
    ELSE LET relation == Head(rels)
             key == <<relation[1], relation[2]>>
         IN  weightLoop([k \in (DOMAIN wt) \cup {key} |->
                            IF k = key THEN relation[3] ELSE wt[k]],
                        Tail(rels))

buildWeight(rels) == weightLoop(<<>>, rels)

\* Graph(v, e, directed, view)
GraphNew(v, e, dir, vw) ==
    \E rs \in buildRelation(dir, e) :
        /\ directed = dir
        /\ view = vw
        /\ vertexes = v
        /\ relations = rs
        /\ adjList = buildAdjList(v, rs)
        /\ encoder = buildEncoder(v)
        /\ decoder = buildDecoder(v)
        /\ adjMat = buildAdjMatrix(v, buildEncoder(v), rs)
        /\ weight = buildWeight(rs)
        /\ v_props = <<>>

_getNeighborsAdjList(vertex) == adjList[vertex]
getNeighbors(vertex) == _getNeighborsAdjList(vertex)

\* _buildVProps(source): the error it raises: the KeyError of
\* self.v_props[source]['distance'] = 0 when source is not a vertex
buildVPropsErr(vs, source) ==
    IF source # None /\ source \notin Range(vs) THEN "KeyError" ELSE NoErr

\* a _buildVProps that keeps the colours of the table it replaces
buildVProps_keep_colors(vs, source) ==
    LET vp == [v \in Range(vs) |->
                 [color |-> IF v \in DOMAIN v_props THEN v_props[v].color
                                                    ELSE WHITE,
                  distance |-> INF, parent |-> None]]
    IN  IF source # None /\ source \in Range(vs)
        THEN [vp EXCEPT ![source].distance = 0] ELSE vp

\* _buildVProps(source): the table it leaves in self.v_props, which is the
\* all-white table when it raises
buildVProps(vs, source) ==
    LET vp == [v \in Range(vs) |->
                 [color |-> WHITE, distance |-> INF, parent |-> None]]
    IN  IF source # None /\ source \in Range(vs)
        THEN [vp EXCEPT ![source].distance = 0] ELSE vp

-----------------------------------------------------------------------------
(* Graph of labyrinth_graph.py: construction.  A relation is <<u, v>>. *)

RECURSIVE Lab_adjListLoop(_, _)
Lab_adjListLoop(al, rels) ==
    IF rels = <<>> THEN al
    ELSE LET relation == Head(rels)
         IN  Lab_adjListLoop([al EXCEPT ![relation[1]] = Append(@, relation[2])],
                             Tail(rels))

Lab_buildAdjList(vs, rels) == Lab_adjListLoop([v \in Range(vs) |-> <<>>], rels)

RECURSIVE Lab_adjMatLoop(_, _, _)
Lab_adjMatLoop(mat, enc, rels) ==
    IF rels = <<>> THEN mat
    ELSE LET relation == Head(rels)
             row == enc[relation[1]]
             col == enc[relation[2]]
         IN  Lab_adjMatLoop([mat EXCEPT ![row][col] = 1], enc, Tail(rels))

Lab_buildAdjMatrix(vs, enc, rels) ==
    Lab_adjMatLoop([i \in 0..(Len(vs) - 1) |-> [j \in 0..(Len(vs) - 1) |-> 0]],
                   enc, rels)

\* Graph(vertexes, relations, directed, view): relations is stored as given
Lab_GraphNew(v, rels, dir, vw) ==
    /\ directed = dir
    /\ view = vw
    /\ vertexes = v
    /\ relations = rels
    /\ adjList = Lab_buildAdjList(v, rels)
    /\ encoder = buildEncoder(v)
    /\ decoder = buildDecoder(v)
    /\ adjMat = Lab_buildAdjMatrix(v, buildEncoder(v), rels)
    /\ weight = <<>>
    /\ v_props = <<>>

Lab_getNeighborsAdjList(vertex) == adjList[vertex]

\* the cells of a matrix row that hold 1, decoded, in index order
RECURSIVE Lab_rowScan(_, _, _)
Lab_rowScan(row, i, neighbors) ==
    IF i >= Len(vertexes) THEN neighbors
    ELSE Lab_rowScan(row, i + 1,
                     IF row[i] = 1 THEN Append(neighbors, decoder[i])
                     ELSE neighbors)

\* _getNeighborsMatAdj(vertex): the row is adjMat[vertex], indexed by the
\* vertex itself (a negative index counts from the end of the list)
Lab_getNeighborsMatAdjErr(vertex) ==
    IF vertex \in (0 - Len(vertexes))..(Len(vertexes) - 1) THEN NoErr
    ELSE "IndexError"

Lab_getNeighborsMatAdj(vertex) ==
    IF Lab_getNeighborsMatAdjErr(vertex) # NoErr THEN <<>>
    ELSE Lab_rowScan(adjMat[IF vertex < 0 THEN Len(vertexes) + vertex
                            ELSE vertex], 0, <<>>)

Lab_getNeighborsErr(vw, vertex) ==
    IF vw THEN NoErr ELSE Lab_getNeighborsMatAdjErr(vertex)

Lab_getNeighbors(vw, vertex) ==
    IF vw THEN Lab_getNeighborsAdjList(vertex)
    ELSE Lab_getNeighborsMatAdj(vertex)

\* a _buildVProps that sets the distance of the source and leaves it white
Lab_buildVProps_white_source(vs, source) ==
    LET vp == [v \in Range(vs) |->
                 [color |-> WHITE, distance |-> INF, parent |-> None]]
    IN  IF source # None THEN [vp EXCEPT ![source].distance = 0] ELSE vp

\* _buildVProps(source): the source's entry is replaced by a gray one
Lab_buildVProps(vs, source) ==
    LET vp == [v \in Range(vs) |->
                 [color |-> WHITE, distance |-> INF, parent |-> None]]
    IN  IF source # None
        THEN [vp EXCEPT ![source] =
                 [color |-> GRAY, distance |-> 0, parent |-> None]]
        ELSE vp

-----------------------------------------------------------------------------
(* Traversals.  Each step maps the instance's v_props and the locals c of   *)
(* one call to their values after the step.                                 *)

Runs == {1, 2}

Idle == [pc |-> "idle", kind |-> "none", src |-> None, queue |-> <<>>,
         u |-> None, rest |-> <<>>, QS |-> <<>>, in_queue |-> <<>>,
         ret |-> <<>>, err |-> NoErr]

St(vp, c) == [vp |-> vp, c |-> c]

PriorityQueueNew(cfg, lst) == HeapNew(cfg, lst)

(* Graph.bfs of graph_heap_pq.py *)

\* self._buildVProps(source); queue = [source]
bfs_init(source) ==
    IF buildVPropsErr(vertexes, source) # NoErr
    THEN St(buildVProps(vertexes, source),
            [Idle EXCEPT !.pc = "raised", !.kind = "bfs", !.src = source,
                         !.err = buildVPropsErr(vertexes, source)])
    ELSE St(buildVProps(vertexes, source),
            [Idle EXCEPT !.pc = "while", !.kind = "bfs", !.src = source,
                         !.queue = <<source>>])

\* u = queue.pop(0); the for loop starts (and ends at once without neighbours)
bfs_pop(vp, c) ==
    LET uu == Head(c.queue)
        nb == getNeighbors(uu)
        c1 == [c EXCEPT !.queue = Tail(@), !.u = uu, !.rest = nb]
    IN  IF nb = <<>>
        THEN St([vp EXCEPT ![uu].color = BLACK], c1)
        ELSE St(vp, [c1 EXCEPT !.pc = "for"])

\* one iteration of the for loop; after the last one u turns black
bfs_visit(vp, c) ==
    LET neighbor == Head(c.rest)[1]
        isWhite == vp[neighbor].color = WHITE
        vp1 == IF isWhite
               THEN [vp EXCEPT ![neighbor].color = GRAY,
                               ![neighbor].distance = Plus(vp[c.u].distance, 1),
                               ![neighbor].parent = c.u]
               ELSE vp
        c1 == [c EXCEPT !.queue = IF isWhite THEN Append(@, neighbor) ELSE @,
                        !.rest = Tail(@)]
    IN  IF c1.rest = <<>>
        THEN St([vp1 EXCEPT ![c.u].color = BLACK], [c1 EXCEPT !.pc = "while"])
        ELSE St(vp1, c1)

\* return self.v_props
trav_return(vp, c) == St(vp, [c EXCEPT !.pc = "done", !.ret = vp])

(* Graph.dijkstraP of graph_heap_pq.py *)

dijkstraP_init(s) ==
    LET vp == buildVProps(vertexes, s)
    IN  IF buildVPropsErr(vertexes, s) # NoErr
        THEN St(vp, [Idle EXCEPT !.pc = "raised", !.kind = "dijkstraP",
                                 !.src = s,
                                 !.err = buildVPropsErr(vertexes, s)])
        ELSE St(vp,
           [Idle EXCEPT
              !.pc = "while", !.kind = "dijkstraP", !.src = s,
              !.QS = PriorityQueueNew(FALSE,
                        [i \in 1..Len(vertexes) |->
                            <<vp[vertexes[i]].distance, vertexes[i]>>]),
              !.in_queue = [v \in Range(vertexes) |-> TRUE]])

(* Graph.dfs and Graph.dfs_visit of graph_heap_pq.py *)

\* self._buildVProps(); time = 0
dfs_init ==
    St(buildVProps(vertexes, None),
       [Idle EXCEPT !.pc = "loop", !.kind = "dfs"])

\* dfs_visit(vertex, time): the table and the time it returns; nbs is what is
\* left of the for loop over the neighbours of vertex
RECURSIVE dfs_visit(_, _, _)
RECURSIVE dfs_visit_for(_, _, _, _)
\* a for loop that visits a white neighbour without recording its parent
dfs_visit_for_no_parent(vp, vertex, time, nbs) ==
    IF nbs = <<>> THEN [vp |-> vp, time |-> time]
    ELSE LET neighbor == Head(nbs)[1]
         IN  IF vp[neighbor].color = WHITE
             THEN LET r == dfs_visit(vp, neighbor, time)
                  IN  dfs_visit_for(r.vp, vertex, r.time, Tail(nbs))
             ELSE dfs_visit_for(vp, vertex, time, Tail(nbs))

dfs_visit(vp, vertex, time) ==
    LET vp1 == [vp EXCEPT ![vertex].distance = time + 1,
                          ![vertex].color = GRAY]
        r == dfs_visit_for(vp1, vertex, time + 1, getNeighbors(vertex))
    IN  [vp |-> [r.vp EXCEPT ![vertex] =
                    [color |-> BLACK, distance |-> @.distance,
                     parent |-> @.parent, final |-> r.time + 1]],
         time |-> r.time + 1]

dfs_visit_for(vp, vertex, time, nbs) ==
    IF nbs = <<>> THEN [vp |-> vp, time |-> time]
    ELSE LET neighbor == Head(nbs)[1]
         IN  IF vp[neighbor].color = WHITE
             THEN LET r == dfs_visit([vp EXCEPT ![neighbor].parent = vertex],
                                     neighbor, time)
                  IN  dfs_visit_for(r.vp, vertex, r.time, Tail(nbs))
             ELSE dfs_visit_for(vp, vertex, time, Tail(nbs))

\* for v in self.vertexes: if white: time = self.dfs_visit(v, time)
RECURSIVE dfs_loop(_, _, _)
dfs_loop(vp, vs, time) ==
    IF vs = <<>> THEN vp
    ELSE IF vp[Head(vs)].color = WHITE
         THEN LET r == dfs_visit(vp, Head(vs), time)
              IN  dfs_loop(r.vp, Tail(vs), r.time)
         ELSE dfs_loop(vp, Tail(vs), time)

\* the loop of dfs and its return
dfs_run(vp, c) ==
    LET vp1 == dfs_loop(vp, vertexes, 0)
    IN  St(vp1, [c EXCEPT !.pc = "done", !.ret = vp1])

\* a dequeue that leaves the in_queue flag of u set
dijkstraP_dequeue_keeps_flag(vp, c) ==
    LET uu == dequeueRet(c.QS)[2]
        nb == getNeighbors(uu)
    IN  St(vp, [c EXCEPT !.QS = dequeue(FALSE, @), !.u = uu,
                         !.rest = nb,
                         !.pc = IF nb = <<>> THEN "while" ELSE "for"])

\* u = QS.dequeue()[1]; in_queue[u] = False; the for loop starts
dijkstraP_dequeue(vp, c) ==
    LET uu == dequeueRet(c.QS)[2]
        nb == getNeighbors(uu)
    IN  St(vp, [c EXCEPT !.QS = dequeue(FALSE, @), !.u = uu,
                         !.in_queue[uu] = FALSE, !.rest = nb,
                         !.pc = IF nb = <<>> THEN "while" ELSE "for"])

\* a relaxation that only ever replaces an infinite distance
dijkstraP_relax_first_wins(vp, c) ==
    LET neighbor == Head(c.rest)[1]
        w == Head(c.rest)[2]
        new_distance == Plus(vp[c.u].distance, w)
        old_distance == vp[neighbor].distance
        better == old_distance = INF /\ new_distance < INF
        vp1 == IF better
               THEN [vp EXCEPT ![neighbor].distance = new_distance,
                               ![neighbor].parent = c.u]
               ELSE vp
        qs1 == IF better /\ c.in_queue[neighbor]
               THEN pqUpdate(FALSE, c.QS, <<old_distance, neighbor>>,
                             <<new_distance, neighbor>>)
               ELSE c.QS
        r1 == Tail(c.rest)
    IN  St(vp1, [c EXCEPT !.QS = qs1, !.rest = r1,
                          !.pc = IF r1 = <<>> THEN "while" ELSE "for"])

\* a relaxation that enqueues the new pair and leaves the old one
dijkstraP_relax_enqueues(vp, c) ==
    LET neighbor == Head(c.rest)[1]
        w == Head(c.rest)[2]
        new_distance == Plus(vp[c.u].distance, w)
        old_distance == vp[neighbor].distance
        better == old_distance > new_distance
        vp1 == IF better
               THEN [vp EXCEPT ![neighbor].distance = new_distance,
                               ![neighbor].parent = c.u]
               ELSE vp
        qs1 == IF better /\ c.in_queue[neighbor]
               THEN enqueue(FALSE, c.QS, <<new_distance, neighbor>>)
               ELSE c.QS
        r1 == Tail(c.rest)
    IN  St(vp1, [c EXCEPT !.QS = qs1, !.rest = r1,
                          !.pc = IF r1 = <<>> THEN "while" ELSE "for"])

\* a relaxation that takes the weight of the relation for the new distance
dijkstraP_relax_weight_only(vp, c) ==
    LET neighbor == Head(c.rest)[1]
        w == Head(c.rest)[2]
        new_distance == w
        old_distance == vp[neighbor].distance
        better == old_distance > new_distance
        vp1 == IF better
               THEN [vp EXCEPT ![neighbor].distance = new_distance,
                               ![neighbor].parent = c.u]
               ELSE vp
        qs1 == IF better /\ c.in_queue[neighbor]
               THEN pqUpdate(FALSE, c.QS, <<old_distance, neighbor>>,
                             <<new_distance, neighbor>>)
               ELSE c.QS
        r1 == Tail(c.rest)
    IN  St(vp1, [c EXCEPT !.QS = qs1, !.rest = r1,
                          !.pc = IF r1 = <<>> THEN "while" ELSE "for"])

\* one iteration of the for loop: the relaxation of (u, neighbor)
dijkstraP_relax(vp, c) ==
    LET neighbor == Head(c.rest)[1]
        w == Head(c.rest)[2]
        new_distance == Plus(vp[c.u].distance, w)
        old_distance == vp[neighbor].distance
        better == old_distance > new_distance
        vp1 == IF better
               THEN [vp EXCEPT ![neighbor].distance = new_distance,
                               ![neighbor].parent = c.u]
               ELSE vp
        qs1 == IF better /\ c.in_queue[neighbor]
               THEN pqUpdate(FALSE, c.QS, <<old_distance, neighbor>>,
                             <<new_distance, neighbor>>)
               ELSE c.QS
        r1 == Tail(c.rest)
    IN  St(vp1, [c EXCEPT !.QS = qs1, !.rest = r1,
                          !.pc = IF r1 = <<>> THEN "while" ELSE "for"])

(* getPath of graph_heap_pq.py (labyrinth_graph.py has the same function) *)

\* the while loop: the parent of current is put in front of the path until a
\* vertex without parent is met; ended is FALSE when the loop is still
\* running after fuel rounds
RECURSIVE getPathLoop(_, _, _, _)
getPathLoop(path, current, vp, fuel) ==
    IF vp[current].parent = None THEN [path |-> path, ended |-> TRUE]
    ELSE IF fuel = 0 THEN [path |-> path, ended |-> FALSE]
    ELSE getPathLoop(<<vp[current].parent>> \o path, vp[current].parent, vp,
                     fuel - 1)

\* getPath returns: a parent chain longer than the table has entries goes
\* round a cycle, and the loop never ends
getPathReturns(vertex, vp) ==
    getPathLoop(<<vertex>>, vertex, vp, Cardinality(DOMAIN vp)).ended

\* getPath raises nothing for a vertex of the table
getPathErr(vertex, vp) ==
    IF vertex \notin DOMAIN vp THEN "KeyError" ELSE NoErr

getPath(vertex, vp) ==
    getPathLoop(<<vertex>>, vertex, vp, Cardinality(DOMAIN vp)).path

(* Graph.bfs of labyrinth_graph.py *)

Lab_bfs_init(source) ==
    St(Lab_buildVProps(vertexes, source),
       [Idle EXCEPT !.pc = "while", !.kind = "lab_bfs", !.src = source,
                    !.queue = <<source>>])

\* u = queue.pop(0); getNeighbors(u) may raise under the matrix view
Lab_bfs_pop(vp, c) ==
    LET uu == Head(c.queue)
        err == Lab_getNeighborsErr(view, uu)
        nb == Lab_getNeighbors(view, uu)
        c1 == [c EXCEPT !.queue = Tail(@), !.u = uu, !.rest = nb]
    IN  IF err # NoErr
        THEN St(vp, [c1 EXCEPT !.pc = "raised", !.err = err])
        ELSE IF nb = <<>>
        THEN St([vp EXCEPT ![uu].color = BLACK], c1)
        ELSE St(vp, [c1 EXCEPT !.pc = "for"])

\* a visit that enqueues every neighbour that is not black
Lab_bfs_visit_requeues(vp, c) ==
    LET neighbor == Head(c.rest)
        isWhite == vp[neighbor].color # BLACK
        vp1 == IF isWhite
               THEN [vp EXCEPT ![neighbor].color = GRAY,
                               ![neighbor].distance = Plus(vp[c.u].distance, 1),
                               ![neighbor].parent = c.u]
               ELSE vp
        c1 == [c EXCEPT !.queue = IF isWhite THEN Append(@, neighbor) ELSE @,
                        !.rest = Tail(@)]
    IN  IF c1.rest = <<>>
        THEN St([vp1 EXCEPT ![c.u].color = BLACK], [c1 EXCEPT !.pc = "while"])
        ELSE St(vp1, c1)

\* one iteration of the for loop; after the last one u is coloured black
Lab_bfs_visit(vp, c) ==
    LET neighbor == Head(c.rest)
        isWhite == vp[neighbor].color = WHITE
        vp1 == IF isWhite
               THEN [vp EXCEPT ![neighbor].color = GRAY,
                               ![neighbor].distance = Plus(vp[c.u].distance, 1),
                               ![neighbor].parent = c.u]
               ELSE vp
        c1 == [c EXCEPT !.queue = IF isWhite THEN Append(@, neighbor) ELSE @,
                        !.rest = Tail(@)]
    IN  IF c1.rest = <<>>
        THEN St([vp1 EXCEPT ![c.u].color = BLACK], [c1 EXCEPT !.pc = "while"])
        ELSE St(vp1, c1)

-----------------------------------------------------------------------------
(* Traversal actions: call r takes one step *)

\* a step that empties the adjacency list when the call returns
Apply_clears_adjList(r, st) ==
    /\ v_props' = st.vp
    /\ call' = [call EXCEPT ![r] = st.c]
    /\ adjList' = IF st.c.pc = "done" THEN [v \in DOMAIN adjList |-> <<>>]
                  ELSE adjList
    /\ UNCHANGED <<heapVars, vertexes, relations, directed, view, encoder,
                   decoder, adjMat, weight, otherVars>>

\* a step of a traversal writes the table and the locals of the call only
Apply(r, st) ==
    /\ v_props' = st.vp
    /\ call' = [call EXCEPT ![r] = st.c]
    /\ UNCHANGED <<heapVars, graphVars, otherVars>>

At_(r, kind, pc) == call[r].kind = kind /\ call[r].pc = pc

Bfs(r, source) ==
    /\ call[r].pc = "idle"
    /\ Apply(r, bfs_init(source))

BfsPop(r) ==
    /\ At_(r, "bfs", "while") /\ call[r].queue # <<>>
    /\ Apply(r, bfs_pop(v_props, call[r]))

BfsVisit(r) ==
    /\ At_(r, "bfs", "for")
    /\ Apply(r, bfs_visit(v_props, call[r]))

BfsReturn(r) ==
    /\ At_(r, "bfs", "while") /\ call[r].queue = <<>>
    /\ Apply(r, trav_return(v_props, call[r]))

DijkstraP(r, s) ==
    /\ call[r].pc = "idle"
    /\ Apply(r, dijkstraP_init(s))

DijkstraPDequeue(r) ==
    /\ At_(r, "dijkstraP", "while") /\ Len(call[r].QS) > 0
    /\ Apply(r, dijkstraP_dequeue(v_props, call[r]))

DijkstraPRelax(r) ==
    /\ At_(r, "dijkstraP", "for")
    /\ Apply(r, dijkstraP_relax(v_props, call[r]))

DijkstraPReturn(r) ==
    /\ At_(r, "dijkstraP", "while") /\ Len(call[r].QS) = 0
    /\ Apply(r, trav_return(v_props, call[r]))

Dfs(r) ==
    /\ call[r].pc = "idle"
    /\ Apply(r, dfs_init)

DfsRun(r) ==
    /\ At_(r, "dfs", "loop")
    /\ Apply(r, dfs_run(v_props, call[r]))

\* the caller is done with the outcome of call r and may call again
Forget(r) ==
    /\ call[r].pc \in {"done", "raised"}
    /\ call' = [call EXCEPT ![r] = Idle]
    /\ UNCHANGED <<heapVars, graphVars, v_props, otherVars>>

\* getPath(target, v_props) on the table that call r returned
GetPath(r, target) ==
    /\ call[r].pc = "done"
    /\ getPathReturns(target, call[r].ret)
    /\ last' = Call("getPath", target, getPath(target, call[r].ret),
                    getPathErr(target, call[r].ret), call[r].ret)
    /\ UNCHANGED <<data, config, log, graphVars, v_props, call, otherVars>>

Lab_Bfs(r, source) ==
    /\ call[r].pc = "idle"
    /\ Apply(r, Lab_bfs_init(source))

Lab_BfsPop(r) ==
    /\ At_(r, "lab_bfs", "while") /\ call[r].queue # <<>>
    /\ Apply(r, Lab_bfs_pop(v_props, call[r]))

Lab_BfsVisit(r) ==
    /\ At_(r, "lab_bfs", "for")
    /\ Apply(r, Lab_bfs_visit(v_props, call[r]))

Lab_BfsReturn(r) ==
    /\ At_(r, "lab_bfs", "while") /\ call[r].queue = <<>>
    /\ Apply(r, trav_return(v_props, call[r]))

-----------------------------------------------------------------------------
(* Specifications of the heap and the priority queues *)

HeapIdle == data = <<>> /\ config = TRUE /\ log = <<>> /\ last = NoCall

GraphIdle ==
    /\ vertexes = <<>> /\ relations = <<>> /\ directed = TRUE /\ view = TRUE
    /\ adjList = <<>> /\ encoder = <<>> /\ decoder = <<>> /\ adjMat = <<>>
    /\ weight = <<>> /\ v_props = <<>>

CallsIdle == call = [r \in Runs |-> Idle]

\* no stack and no disjoint sets are in use
ArgsIdle == labyrinth = <<>> /\ lst_in = <<>>

OtherIdle == top = None /\ size = 0 /\ nodes = <<>> /\ sets = <<>> /\ ArgsIdle

\* a Heap of graph_heap_pq.py built from any list, then insert/delete/update
InitHeap ==
    /\ \E cfg \in BOOLEAN, lst \in SeqUpTo(Elems, MaxHeap) :
          data = HeapNew(cfg, lst) /\ config = cfg
    /\ log = <<>> /\ last = NoCall
    /\ GraphIdle /\ CallsIdle /\ OtherIdle

NextHeap ==
    \/ \E x \in Elems : Insert(x)
    \/ \E x \in Elems : Delete(x)
    \/ \E old \in Elems, new \in Elems : Update(old, new)

SpecHeap == InitHeap /\ [][NextHeap]_vars

\* an empty PriorityQueue of graph_heap_pq.py, then enqueue/dequeue
InitPQ ==
    /\ \E cfg \in BOOLEAN :
          data = PriorityQueueNew(cfg, <<>>) /\ config = cfg
    /\ log = <<>> /\ last = NoCall
    /\ GraphIdle /\ CallsIdle /\ OtherIdle

NextPQ ==
    \/ \E x \in Elems : Enqueue(x)
    \/ Dequeue

SpecPQ == InitPQ /\ [][NextPQ]_vars

\* a PriorityQueue of heap_priority_queue.py built from any list, then
\* enqueue/dequeue
InitHpq ==
    /\ \E cfg \in BOOLEAN, lst \in SeqUpTo(Elems, MaxHeap) :
          data = hpq_HeapNew(cfg, lst) /\ config = cfg
    /\ log = <<>> /\ last = NoCall
    /\ GraphIdle /\ CallsIdle /\ OtherIdle

NextHpq ==
    \/ \E x \in Elems : hpq_Enqueue(x)
    \/ hpq_Dequeue
    \/ \E x \in Elems : hpq_Delete(x)

SpecHpq == InitHpq /\ [][NextHpq]_vars

\* a Heap of graph_heap_pq.py built from any list, then insert/delete/peek
NextPeek ==
    \/ \E x \in Elems : Insert(x)
    \/ \E x \in Elems : Delete(x)
    \/ Peek

SpecPeek == InitHeap /\ [][NextPeek]_vars

-----------------------------------------------------------------------------
(* Claims about the heap and the priority queues *)

\* the configured order between a parent and a child
InOrder(cfg, p, c) == IF cfg THEN ~Lt(p, c) ELSE ~Lt(c, p)

HeapProperty(cfg, d) ==
    \A i \in 1..(Len(d) - 1) : InOrder(cfg, At(d, parent(i)), At(d, i))

\* C2: after any sequence of insert, delete and update on a Heap of
\* graph_heap_pq.py, every non-root index i has a parent at (i-1)//2 that is
\* in the configured order with data[i].
C2_HeapInvariant == HeapProperty(config, data)

\* the values of the entries of l
Vals(l) == [i \in 1..Len(l) |-> l[i][2]]

\* s is sorted: descending for a max-heap, ascending for a min-heap
Sorted(cfg, s) ==
    \A i \in 1..(Len(s) - 1) : InOrder(cfg, s[i], s[i + 1])

Count(s, x) == Cardinality({i \in 1..Len(s) : s[i] = x})
IsPermutation(s, t) ==
    /\ Len(s) = Len(t)
    /\ \A x \in Range(s) \cup Range(t) : Count(s, x) = Count(t, x)

\* the log is n enqueues into the empty queue followed by n dequeues
FilledThenDrained ==
    LET n == Len(Enqs(log))
    IN  /\ Len(log) = 2 * n
        /\ \A i \in 1..n : log[i][1] = "enq"

\* C3: n elements enqueued in any order into an empty PriorityQueue of
\* graph_heap_pq.py and then dequeued n times come out as a sorted
\* permutation, descending for config=True and ascending for config=False.
C3_DequeueSorted ==
    FilledThenDrained =>
        /\ Sorted(config, Vals(Deqs(log)))
        /\ IsPermutation(Vals(Deqs(log)), Vals(Enqs(log)))

\* three elements, enqueued neither ascending nor descending, all dequeued
C3_Witness ==
    /\ FilledThenDrained
    /\ Len(log) = 6
    /\ Lt(log[1][2], log[2][2])
    /\ Lt(log[3][2], log[1][2])

\* C4: a PriorityQueue of heap_priority_queue.py built with config=False
\* always dequeues a least element of its current contents.
C4_MinDequeue ==
    (config = FALSE /\ last.op = "dequeue" /\ last.err = NoErr) =>
        \A e \in Range(last.prev) : ~Lt(e, last.ret)

\* C12: update(old, new) on a Heap (and so on a PriorityQueue) of
\* graph_heap_pq.py that stores no element equal to old fails with an error
\* reported to the caller.
C12_UpdateAbsentFails ==
    (last.op = "update" /\ ~Contains(last.prev, last.arg[1])) =>
        last.err # NoErr

\* C13: Heap.delete(x) fails with an error on an empty heap and when no
\* stored element equals x, and then leaves the array exactly as it was.
C13_DeleteFailsClean ==
    (last.op = "delete" /\ (last.prev = <<>> \/ ~Contains(last.prev, last.arg)))
        => (last.err # NoErr /\ data = last.prev)

\* a delete of an absent element on a heap that holds two elements
C13_Witness ==
    /\ last.op = "delete"
    /\ Len(last.prev) = 2
    /\ ~Contains(last.prev, last.arg)

\* C14: dequeue() on a queue without elements fails with 'Underflow' and
\* leaves the queue empty; on a queue with elements it never fails and
\* shrinks the queue by exactly one element.
C14_DequeueUnderflow ==
    last.op = "dequeue" =>
        IF last.prev = <<>>
        THEN last.err = "Underflow" /\ data = <<>>
        ELSE last.err = NoErr /\ Len(data) = Len(last.prev) - 1

\* a queue filled with a duplicate, drained, and dequeued once more
C14_Witness ==
    /\ last.op = "dequeue"
    /\ last.err = "Underflow"
    /\ Len(Deqs(log)) >= 2
    /\ \E i, j \in 1..Len(log) : i < j /\ log[i] = log[j]

\* x is an extreme element of d: a greatest one for a max-heap, a least one
\* for a min-heap
Extreme(cfg, d, x) ==
    /\ Contains(d, x)
    /\ \A e \in Range(d) : InOrder(cfg, x, e)

\* C15: after any sequence of insert and delete, peek() returns a greatest
\* (max-heap) or least (min-heap) element of the heap and leaves its contents
\* unchanged; on a heap without elements it fails with an error.
C15_PeekRoot ==
    last.op = "peek" =>
        /\ data = last.prev
        /\ IF last.prev = <<>>
           THEN last.err # NoErr
           ELSE last.err = NoErr /\ Extreme(config, last.prev, last.ret)

\* a peek on a heap of three elements that are not all equal
C15_Witness ==
    /\ last.op = "peek"
    /\ Len(last.prev) = 3
    /\ \E e \in Range(last.prev) : e # last.ret

-----------------------------------------------------------------------------
(* Graph query actions *)

\* getNeighbors(vertex) on the weighted Graph
GetNeighbors(vertex) ==
    /\ last' = Call("getNeighbors", vertex, getNeighbors(vertex), NoErr, <<>>)
    /\ UNCHANGED <<data, config, log, graphVars, v_props, call, otherVars>>

\* getAdjMatrix()
GetAdjMatrix ==
    /\ last' = Call("getAdjMatrix", <<>>, adjMat, NoErr, <<>>)
    /\ UNCHANGED <<data, config, log, graphVars, v_props, call, otherVars>>

\* getNeighbors(vertex) on the Graph of labyrinth_graph.py
Lab_GetNeighbors(vertex) ==
    /\ last' = Call("getNeighbors", vertex, Lab_getNeighbors(view, vertex),
                    Lab_getNeighborsErr(view, vertex), <<>>)
    /\ UNCHANGED <<data, config, log, graphVars, v_props, call, otherVars>>

-----------------------------------------------------------------------------
(* Specifications of the graphs *)

Vertices(n, off) == [i \in 1..n |-> i - 1 + off]
WRelations(n, ws) == {<<a, b, w>> : a \in 0..(n - 1), b \in 0..(n - 1), w \in ws}
LabRelations(n, off) ==
    {<<a, b>> : a \in off..(n - 1 + off), b \in off..(n - 1 + off)}


\* construction of the weighted Graph, directed or not, and its queries
GNumV == 2       \* vertices 0..GNumV-1
GMaxRel == 2     \* at most GMaxRel relations are supplied
GMaxW == 2       \* weights 0..GMaxW

InitGraph ==
    /\ \E e \in SeqUpTo(WRelations(GNumV, 0..GMaxW), GMaxRel), dir \in BOOLEAN :
          GraphNew(Vertices(GNumV, 0), e, dir, TRUE)
    /\ HeapIdle /\ CallsIdle /\ OtherIdle

NextGraph ==
    \/ \E v \in Range(vertexes) : GetNeighbors(v)
    \/ GetAdjMatrix

SpecGraph == InitGraph /\ [][NextGraph]_vars

\* one traversal (bfs or dijkstraP) of a directed weighted Graph
WNumV == 4       \* vertices 0..WNumV-1
WMaxRel == 3     \* at most WMaxRel relations
WMaxW == 1       \* weights 0..WMaxW

InitW ==
    /\ \E e \in SeqUpTo(WRelations(WNumV, 0..WMaxW), WMaxRel) :
          GraphNew(Vertices(WNumV, 0), e, TRUE, TRUE)
    /\ HeapIdle /\ CallsIdle /\ OtherIdle

NextW ==
    \/ \E s \in Range(vertexes) : Bfs(1, s)
    \/ BfsPop(1)
    \/ BfsVisit(1)
    \/ BfsReturn(1)
    \/ \E s \in Range(vertexes) : DijkstraP(1, s)
    \/ DijkstraPDequeue(1)
    \/ DijkstraPRelax(1)
    \/ DijkstraPReturn(1)

SpecW == InitW /\ [][NextW]_vars

\* two traversals of one directed weighted Graph, interleaved step by step
CNumV == 2
CMaxRel == 2

InitConc ==
    /\ \E e \in SeqUpTo(WRelations(CNumV, {1}), CMaxRel) :
          GraphNew(Vertices(CNumV, 0), e, TRUE, TRUE)
    /\ HeapIdle /\ CallsIdle /\ OtherIdle

NextConc ==
    \/ \E r \in Runs, s \in Range(vertexes) : Bfs(r, s)
    \/ \E r \in Runs : BfsPop(r)
    \/ \E r \in Runs : BfsVisit(r)
    \/ \E r \in Runs : BfsReturn(r)
    \/ \E r \in Runs, s \in Range(vertexes) : DijkstraP(r, s)
    \/ \E r \in Runs : DijkstraPDequeue(r)
    \/ \E r \in Runs : DijkstraPRelax(r)
    \/ \E r \in Runs : DijkstraPReturn(r)

SpecConc == InitConc /\ [][NextConc]_vars

\* one bfs of a Graph of labyrinth_graph.py with the adjacency-list view
LNumV == 3       \* vertices 0..LNumV-1
LMaxRel == 3     \* at most LMaxRel relations

InitLab ==
    /\ \E e \in SeqUpTo(LabRelations(LNumV, 0), LMaxRel) :
          Lab_GraphNew(Vertices(LNumV, 0), e, TRUE, TRUE)
    /\ HeapIdle /\ CallsIdle /\ OtherIdle

NextLab ==
    \/ \E s \in Range(vertexes) : Lab_Bfs(1, s)
    \/ Lab_BfsPop(1)
    \/ Lab_BfsVisit(1)
    \/ Lab_BfsReturn(1)

SpecLab == InitLab /\ [][NextLab]_vars

\* getNeighbors on a Graph of labyrinth_graph.py under either view, with
\* vertices that are or are not their own index
VNumV == 2       \* VNumV vertices
VMaxRel == 2     \* at most VMaxRel relations
VMaxOff == 1     \* the vertices are off..off+VNumV-1 for off in 0..VMaxOff

InitView ==
    /\ \E off \in 0..VMaxOff, vw \in BOOLEAN :
          \E e \in SeqUpTo(LabRelations(VNumV, off), VMaxRel) :
              Lab_GraphNew(Vertices(VNumV, off), e, TRUE, vw)
    /\ HeapIdle /\ CallsIdle /\ OtherIdle

NextView ==
    \/ \E v \in Range(vertexes) : Lab_GetNeighbors(v)
    \/ \E s \in Range(vertexes) : Lab_Bfs(1, s)
    \/ Lab_BfsPop(1)
    \/ Lab_BfsVisit(1)
    \/ Lab_BfsReturn(1)

SpecView == InitView /\ [][NextView]_vars

-----------------------------------------------------------------------------
(* Reference definitions for the claims about traversals *)

Min(S) == CHOOSE x \in S : \A y \in S : x <= y

\* one round of relaxing every relation: unit counts edges, else weights
RelaxAll(d, unit) ==
    [v \in DOMAIN d |->
        Min({d[v]} \cup {Plus(d[r[1]], IF unit THEN 1 ELSE r[3]) :
                            r \in {x \in Range(relations) : x[2] = v}})]

RECURSIVE RelaxRounds(_, _, _)
RelaxRounds(d, unit, k) ==
    IF k = 0 THEN d ELSE RelaxRounds(RelaxAll(d, unit), unit, k - 1)

\* the least total weight (unit: the least number of edges) of a path from s
\* to each vertex, INF where there is none: a shortest path has fewer edges
\* than there are vertices
ShortestFrom(s, unit) ==
    RelaxRounds([v \in Range(vertexes) |-> IF v = s THEN 0 ELSE INF], unit,
                Len(vertexes) - 1)

\* the step a call of bfs or dijkstraP of graph_heap_pq.py takes next
stepW(st) ==
    LET c == st.c
    IN  IF c.kind = "bfs"
        THEN IF c.pc = "for" THEN bfs_visit(st.vp, c)
             ELSE IF c.queue # <<>> THEN bfs_pop(st.vp, c)
             ELSE trav_return(st.vp, c)
        ELSE IF c.pc = "for" THEN dijkstraP_relax(st.vp, c)
             ELSE IF Len(c.QS) > 0 THEN dijkstraP_dequeue(st.vp, c)
             ELSE trav_return(st.vp, c)

RECURSIVE runW(_)
runW(st) == IF st.c.pc = "done" THEN st.c.ret ELSE runW(stepW(st))

\* the table the call returns when no other call runs on the instance
Alone(kind, s) ==
    runW(IF kind = "bfs" THEN bfs_init(s) ELSE dijkstraP_init(s))

-----------------------------------------------------------------------------
(* Claims about the graphs and the traversals *)

\* C1: for every directed graph with weights >= 0 and every source s,
\* dijkstraP(s) returns distance[v] = the least total weight of a path from s
\* to v for every reachable v, and infinity for every unreachable v.
C1_DijkstraOptimal ==
    At_(1, "dijkstraP", "done") =>
        \A v \in Range(vertexes) :
            call[1].ret[v].distance = ShortestFrom(call[1].src, FALSE)[v]

\* C5: on the Graph of labyrinth_graph.py with the adjacency-list view,
\* bfs(s) returns distance[s] = 0, distance[v] = the least number of edges of
\* a path from s to v for every reachable v, and infinity for the others.
C5_BfsOptimal ==
    At_(1, "lab_bfs", "done") =>
        \A v \in Range(vertexes) :
            call[1].ret[v].distance = ShortestFrom(call[1].src, TRUE)[v]

\* a finished bfs that reached a vertex two edges away, on a graph with an
\* edge back into the source
C5_Witness ==
    /\ At_(1, "lab_bfs", "done")
    /\ \E v \in Range(vertexes) : call[1].ret[v].distance = 2
    /\ \E r \in Range(relations) : r[2] = call[1].src

\* C6: bfs(s) of graph_heap_pq.py ends with distance[v] = the hop count from
\* s for every reachable v, with distance[s] = 0 and parent[s] = None, also
\* when s has a self-loop or lies on a cycle.
C6_BfsFromSource ==
    At_(1, "bfs", "done") =>
        /\ call[1].ret[call[1].src].distance = 0
        /\ call[1].ret[call[1].src].parent = None
        /\ \A v \in Range(vertexes) :
              call[1].ret[v].distance = ShortestFrom(call[1].src, TRUE)[v]

\* C7: for every weighted Graph with weights >= 0 and every vertex v, the
\* neighbours listed in adjList[v] are the vertices whose cell in the matrix
\* row of v is non-zero.
C7_MatrixListAgree ==
    \A v \in Range(vertexes) :
        {n[1] : n \in Range(adjList[v])} =
        {decoder[j] : j \in {k \in 0..(Len(vertexes) - 1) :
                                adjMat[encoder[v]][k] # 0}}

\* C8: getNeighbors(v) of labyrinth_graph.py returns the same set of
\* neighbours under view=False (matrix row scan) as under view=True
\* (adjacency list), whatever the vertex identifiers are.
C8_ViewsAgree ==
    last.op = "getNeighbors" =>
        /\ last.err = NoErr
        /\ Range(last.ret) = Range(Lab_getNeighborsAdjList(last.arg))

\* C9: when two traversals of one Graph instance are interleaved step by
\* step, each returns exactly the table it returns when run alone.
C9_RunsIsolated ==
    \A r \in Runs :
        call[r].pc = "done" => call[r].ret = Alone(call[r].kind, call[r].src)

\* C10: in an undirected weighted Graph every relation (u, v, w) is present
\* in both directions in both views: (v, w) is in adjList[u], (u, w) is in
\* adjList[v], and the matrix cells [u][v] and [v][u] are equal.
C10_UndirectedSymmetric ==
    ~directed =>
        \A r \in Range(relations) :
            /\ <<r[2], r[3]>> \in Range(adjList[r[1]])
            /\ <<r[1], r[3]>> \in Range(adjList[r[2]])
            /\ adjMat[encoder[r[1]]][encoder[r[2]]] =
               adjMat[encoder[r[2]]][encoder[r[1]]]

-----------------------------------------------------------------------------
(* Undirected graphs of labyrinth_graph.py *)

\* _buildRelation: e itself when directed, else a set holding each relation
\* and its reverse
Lab_buildRelation(dir, e) ==
    IF dir THEN {e}
    ELSE SetOrders(Range(e) \cup {<<el[2], el[1]>> : el \in Range(e)})

\* _init_(v, e, directed, view), the alternative initializer, called on an
\* instance that exists; v_props is not touched
Lab_init_(v, e, dir, vw) ==
    /\ \E rs \in Lab_buildRelation(dir, e) :
          /\ directed' = dir
          /\ view' = vw
          /\ vertexes' = v
          /\ relations' = rs
          /\ adjList' = Lab_buildAdjList(v, rs)
          /\ encoder' = buildEncoder(v)
          /\ decoder' = buildDecoder(v)
          /\ adjMat' = Lab_buildAdjMatrix(v, buildEncoder(v), rs)
    /\ last' = Call("_init_", <<>>, <<>>, NoErr, <<>>)
    /\ UNCHANGED <<data, config, log, weight, v_props, call, otherVars>>

\* getAdjMatrix() on the Graph of labyrinth_graph.py
Lab_GetAdjMatrix ==
    /\ last' = Call("getAdjMatrix", <<>>, adjMat, NoErr, <<>>)
    /\ UNCHANGED <<data, config, log, graphVars, v_props, call, otherVars>>

\* a Graph of labyrinth_graph.py constructed directed or undirected, its
\* queries, and its re-initialisation with _init_
UNumV == 2       \* vertices 0..UNumV-1
UMaxRel == 2     \* at most UMaxRel relations are supplied

InitUndir ==
    /\ \E e \in SeqUpTo(LabRelations(UNumV, 0), UMaxRel), dir \in BOOLEAN :
          Lab_GraphNew(Vertices(UNumV, 0), e, dir, TRUE)
    /\ HeapIdle /\ CallsIdle /\ OtherIdle

NextUndir ==
    \/ \E v \in Range(vertexes) : Lab_GetNeighbors(v)
    \/ Lab_GetAdjMatrix
    \/ \E e \in SeqUpTo(LabRelations(UNumV, 0), UMaxRel), dir \in BOOLEAN :
          Lab_init_(vertexes, e, dir, view)

SpecUndir == InitUndir /\ [][NextUndir]_vars

\* C11: in a Graph of labyrinth_graph.py with directed=False, for every
\* relation (u, v), v is in the adjacency list of u, u is in the adjacency
\* list of v, and the matrix cells [u][v] and [v][u] are both 1.
C11_LabUndirectedSymmetric ==
    ~directed =>
        \A r \in Range(relations) :
            /\ r[2] \in Range(adjList[r[1]])
            /\ r[1] \in Range(adjList[r[2]])
            /\ adjMat[encoder[r[1]]][encoder[r[2]]] = 1
            /\ adjMat[encoder[r[2]]][encoder[r[1]]] = 1

-----------------------------------------------------------------------------
(* Construction of the weighted Graph from any vertex sequence *)

\* Graph(v, e): the error it raises: a KeyError of _buildAdjList when a
\* relation names a vertex that is not in v; a repeated vertex raises nothing
GraphNewErr(v, e) ==
    IF \E r \in Range(e) : r[1] \notin Range(v) \/ r[2] \notin Range(v)
    THEN "KeyError" ELSE NoErr

DNumV == 2       \* the vertex sequence is over 0..DNumV-1
DMaxLen == 3     \* and has at most DMaxLen entries, repeated or not
DMaxRel == 1     \* at most DMaxRel relations, of weight 1

InitDup ==
    /\ \E v \in SeqUpTo(0..(DNumV - 1), DMaxLen) :
          \E e \in SeqUpTo({<<a, b, 1>> : a \in Range(v), b \in Range(v)},
                           DMaxRel) :
              /\ GraphNew(v, e, TRUE, TRUE)
              /\ last = Call("Graph", v, <<>>, GraphNewErr(v, e), <<>>)
    /\ data = <<>> /\ config = TRUE /\ log = <<>>
    /\ CallsIdle /\ OtherIdle

SpecDup == InitDup /\ [][NextGraph]_vars

HasDuplicates(v) == \E i, j \in DOMAIN v : i # j /\ v[i] = v[j]

\* C16: constructing a Graph from a vertex sequence in which some vertex
\* occurs more than once fails with an error.
C16_DuplicateVertexRejected ==
    (last.op = "Graph" /\ HasDuplicates(last.arg)) => last.err # NoErr

-----------------------------------------------------------------------------
(* Traversals of one Graph instance, one after the other *)

SNumV == 2       \* vertices 0..SNumV-1; SNumV is a source that is no vertex
SMaxRel == 2     \* at most SMaxRel relations, of weight 1

\* no call is in progress
Quiet == \A q \in Runs : call[q].pc \in {"idle", "done", "raised"}

InitSeq ==
    /\ \E e \in SeqUpTo(WRelations(SNumV, {1}), SMaxRel) :
          GraphNew(Vertices(SNumV, 0), e, TRUE, TRUE)
    /\ HeapIdle /\ CallsIdle /\ OtherIdle

NextSeq ==
    \/ \E r \in Runs, s \in 0..SNumV : Quiet /\ Bfs(r, s)
    \/ \E r \in Runs : BfsPop(r)
    \/ \E r \in Runs : BfsVisit(r)
    \/ \E r \in Runs : BfsReturn(r)
    \/ \E r \in Runs, s \in 0..SNumV : Quiet /\ DijkstraP(r, s)
    \/ \E r \in Runs : DijkstraPDequeue(r)
    \/ \E r \in Runs : DijkstraPRelax(r)
    \/ \E r \in Runs : DijkstraPReturn(r)
    \/ \E r \in Runs : Quiet /\ Dfs(r)
    \/ \E r \in Runs : DfsRun(r)
    \/ \E r \in Runs : Quiet /\ Forget(r)

SpecSeq == InitSeq /\ [][NextSeq]_vars

\* C17: bfs(source) or dijkstraP(source) with a source that is no vertex
\* fails before any state of the instance is modified: the stored v_props is
\* the same after the failed call as before it.
C17_FailedCallKeepsState ==
    [][\A r \in Runs :
          (call[r].pc = "idle" /\ call'[r].pc = "raised" /\ v_props # <<>>)
              => v_props' = v_props]_vars

\* the table a call returns on a freshly constructed identical Graph
Fresh(kind, s) ==
    IF kind = "dfs" THEN dfs_run(dfs_init.vp, dfs_init.c).c.ret
    ELSE Alone(kind, s)

\* C19: after any sequence of earlier traversals on the same instance, a call
\* of bfs, dfs or dijkstraP returns exactly the table the same call returns on
\* a freshly constructed identical Graph.
C19_NoHistory ==
    \A r \in Runs :
        call[r].pc = "done" => call[r].ret = Fresh(call[r].kind, call[r].src)

\* a bfs that reached a neighbour, after a dfs on the same instance
C19_Witness ==
    /\ At_(1, "dfs", "done")
    /\ At_(2, "bfs", "done")
    /\ \E v \in Range(vertexes) : call[2].ret[v].distance = 1

-----------------------------------------------------------------------------
(* Paths read from the table a traversal returned *)

PNumV == 3       \* vertices 0..PNumV-1
PMaxRel == 2     \* at most PMaxRel relations, of weight 1

InitPath ==
    /\ \E e \in SeqUpTo(WRelations(PNumV, {1}), PMaxRel) :
          GraphNew(Vertices(PNumV, 0), e, TRUE, TRUE)
    /\ HeapIdle /\ CallsIdle /\ OtherIdle

NextPath ==
    \/ \E s \in Range(vertexes) : Bfs(1, s)
    \/ BfsPop(1)
    \/ BfsVisit(1)
    \/ BfsReturn(1)
    \/ \E s \in Range(vertexes) : DijkstraP(1, s)
    \/ DijkstraPDequeue(1)
    \/ DijkstraPRelax(1)
    \/ DijkstraPReturn(1)
    \/ \E t \in Range(vertexes) : GetPath(1, t)

SpecPath == InitPath /\ [][NextPath]_vars

\* C18: getPath(target, v_props) fails whenever distance[target] is infinity
\* in the table; it never returns a vertex sequence for an unreached target.
C18_UnreachableFails ==
    (last.op = "getPath" /\ last.prev[last.arg].distance = INF) =>
        last.err # NoErr

(* The scenario A, B, C, D (the vertices 0, 1, 2, 3) *)

ScenarioVertices == {0, 1, 2, 3}
ScenarioRelations ==
    {<<0, 1, 1>>, <<0, 2, 4>>, <<1, 2, 1>>, <<1, 3, 5>>, <<2, 3, 1>>}

\* the graph of the scenario, from every ordering of the vertex list and of
\* the relation list
InitScenario ==
    /\ \E v \in SetOrders(ScenarioVertices), e \in SetOrders(ScenarioRelations) :
          GraphNew(v, e, TRUE, TRUE)
    /\ HeapIdle /\ CallsIdle /\ OtherIdle

NextScenario ==
    \/ DijkstraP(1, 0)
    \/ DijkstraPDequeue(1)
    \/ DijkstraPRelax(1)
    \/ DijkstraPReturn(1)
    \/ \E t \in Range(vertexes) : GetPath(1, t)

SpecScenario == InitScenario /\ [][NextScenario]_vars

\* C20: on the scenario graph dijkstraP(A) returns the distances A:0, B:1,
\* C:2, D:3 and getPath(D, result) is [A, B, C, D], for every ordering of the
\* vertex list and of the relation list.
C20_Scenario ==
    /\ At_(1, "dijkstraP", "done") =>
          /\ \A v \in ScenarioVertices : call[1].ret[v].distance = v
          /\ getPathReturns(3, call[1].ret)
    /\ (last.op = "getPath" /\ last.arg = 3) =>
          (last.err = NoErr /\ last.ret = <<0, 1, 2, 3>>)

\* the path to D was read, on a graph whose vertex list starts with D and
\* whose relation list starts with (A, C, 4) and ends with (A, B, 1)
C20_Witness ==
    /\ last.op = "getPath" /\ last.arg = 3
    /\ vertexes[1] = 3
    /\ relations[1] = <<0, 2, 4>>
    /\ relations[5] = <<0, 1, 1>>

-----------------------------------------------------------------------------
(* LinkedListStack of double-linkedlist/lifo.py.  A stack is the record     *)
(* [top, size, nodes]; a Node is an identifier whose fields are nodes[id].  *)

Stack(t, sz, ns) == [top |-> t, size |-> sz, nodes |-> ns]

\* Node(value): a new object, with next = None
NewNode(ns) == CHOOSE id \in 1..(Cardinality(DOMAIN ns) + 1) : id \notin DOMAIN ns

lifo_isEmpty(st) == st.top = None

\* push: new_node = Node(value); new_node.setNext(self.top); top; size += 1
lifo_push(st, value) ==
    LET new_node == NewNode(st.nodes)
    IN  Stack(new_node, st.size + 1,
              [id \in DOMAIN st.nodes \cup {new_node} |->
                  IF id = new_node THEN [value |-> value, next |-> st.top]
                  ELSE st.nodes[id]])

\* a pop that unlinks the top node and leaves size as it was
lifo_pop_keeps_size(st) ==
    IF lifo_isEmpty(st) THEN [st |-> st, ret |-> None]
    ELSE [st |-> Stack(st.nodes[st.top].next, st.size,
                       [id \in DOMAIN st.nodes \ {st.top} |-> st.nodes[id]]),
          ret |-> st.nodes[st.top].value]

\* pop: the stack it leaves and the value it returns; the popped node is no
\* longer referenced
lifo_pop(st) ==
    IF lifo_isEmpty(st) THEN [st |-> st, ret |-> None]
    ELSE [st |-> Stack(st.nodes[st.top].next, st.size - 1,
                       [id \in DOMAIN st.nodes \ {st.top} |-> st.nodes[id]]),
          ret |-> st.nodes[st.top].value]

lifo_peek(st) ==
    IF lifo_isEmpty(st) THEN None ELSE st.nodes[st.top].value

lifo_len(st) == st.size

MaxVal == 1      \* the values pushed are 0..MaxVal
MaxOps == 5      \* at most MaxOps calls of push and pop

SetStack(st) ==
    /\ top' = st.top /\ size' = st.size /\ nodes' = st.nodes
    /\ UNCHANGED <<data, config, graphVars, v_props, call, sets, labyrinth, lst_in>>

\* log is the history of the push and pop calls; prev of last is the history
\* before the call
Push(value) ==
    /\ Len(log) < MaxOps
    /\ SetStack(lifo_push(Stack(top, size, nodes), value))
    /\ log' = Append(log, <<"push", value>>)
    /\ last' = Call("push", value, None, NoErr, log)

Pop ==
    /\ Len(log) < MaxOps
    /\ SetStack(lifo_pop(Stack(top, size, nodes)).st)
    /\ log' = Append(log, <<"pop", lifo_pop(Stack(top, size, nodes)).ret>>)
    /\ last' = Call("pop", <<>>, lifo_pop(Stack(top, size, nodes)).ret, NoErr, log)

StackPeek ==
    /\ last' = Call("peek", <<>>, lifo_peek(Stack(top, size, nodes)), NoErr, log)
    /\ UNCHANGED <<data, config, log, graphVars, v_props, call, otherVars>>

StackLen ==
    /\ last' = Call("len", <<>>, lifo_len(Stack(top, size, nodes)), NoErr, log)
    /\ UNCHANGED <<data, config, log, graphVars, v_props, call, otherVars>>

InitStack == HeapIdle /\ GraphIdle /\ CallsIdle /\ OtherIdle

NextStack ==
    \/ \E value \in 0..MaxVal : Push(value)
    \/ Pop
    \/ StackPeek
    \/ StackLen

SpecStack == InitStack /\ [][NextStack]_vars

\* the abstract LIFO sequence after the calls of l, the bottom first
RECURSIVE Lifo(_)
Lifo(l) ==
    IF l = <<>> THEN <<>>
    ELSE LET before == Lifo(SubSeq(l, 1, Len(l) - 1))
             e == l[Len(l)]
         IN  IF e[1] = "push" THEN Append(before, e[2])
             ELSE IF before = <<>> THEN before
             ELSE SubSeq(before, 1, Len(before) - 1)

\* the most recent value of the abstract sequence, None when there is none
LifoTop(a) == IF a = <<>> THEN None ELSE a[Len(a)]

\* the values met from node p along next, the top first
RECURSIVE Walk(_)
Walk(p) == IF p = None THEN <<>> ELSE <<nodes[p].value>> \o Walk(nodes[p].next)

Reverse(a) == [i \in 1..Len(a) |-> a[Len(a) + 1 - i]]

\* C23: LinkedListStack refines the abstract LIFO sequence: the list from top
\* is the sequence, len is its length, pop and peek return its most recent
\* value, and on an empty stack they return None and leave it empty.
C23_StackRefinesLifo ==
    /\ Walk(top) = Reverse(Lifo(log))
    /\ size = Len(Lifo(log)) /\ size >= 0
    /\ last.op = "pop" =>
          /\ last.ret = LifoTop(Lifo(last.prev))
          /\ Lifo(last.prev) = <<>> => (top = None /\ size = 0)
    /\ last.op = "peek" =>
          /\ last.ret = LifoTop(Lifo(log))
          /\ log = last.prev
          /\ Lifo(log) = <<>> => (top = None /\ size = 0)
    /\ last.op = "len" => last.ret = Len(Lifo(log))

\* a pop that returned the second of two values pushed after a pop on the
\* empty stack
C23_Witness ==
    /\ last.op = "pop"
    /\ Len(log) = 4
    /\ log[1] = <<"pop", None>>
    /\ log[2][1] = "push" /\ log[3][1] = "push" /\ log[2][2] # log[3][2]
    /\ last.ret = log[3][2]

-----------------------------------------------------------------------------
(* DisjointSets of hash-table-collision-resolution/disjoint_sets.py.  sets  *)
(* is a list of sets; where findSet returns None the model has the empty    *)
(* set, which is never stored.                                              *)

\* DisjointSets(A): self.sets = [set([x]) for x in A]
DisjointSetsNew(A) == [i \in 1..Len(A) |-> {A[i]}]

\* findSet(x): the first set of the list that holds x
findSet(ss, x) ==
    IF \E i \in 1..Len(ss) : x \in ss[i]
    THEN ss[CHOOSE i \in 1..Len(ss) :
                x \in ss[i] /\ \A j \in 1..(i - 1) : x \notin ss[j]]
    ELSE {}

\* makeSet(x): the list it leaves; it returns findSet(x) of that list
makeSet(ss, x) == IF findSet(ss, x) = {} THEN Append(ss, {x}) ELSE ss

\* a union that removes s1 only
union_keeps_s2(ss, x, y) ==
    LET ss1 == IF findSet(ss, x) = {} THEN makeSet(ss, x) ELSE ss
        s1 == findSet(ss1, x)
        ss2 == IF findSet(ss, y) = {} THEN makeSet(ss1, y) ELSE ss1
        s2 == findSet(ss2, y)
    IN  IF s1 # s2 THEN Append(Remove(ss2, s1), s1 \cup s2) ELSE ss2

\* union(x, y): s1 and s2 are looked up first, then made where missing; sets
\* that differ are removed from the list and their union is appended
union(ss, x, y) ==
    LET ss1 == IF findSet(ss, x) = {} THEN makeSet(ss, x) ELSE ss
        s1 == findSet(ss1, x)
        ss2 == IF findSet(ss, y) = {} THEN makeSet(ss1, y) ELSE ss1
        s2 == findSet(ss2, y)
    IN  IF s1 # s2
        THEN Append(Remove(Remove(ss2, s1), s2), s1 \cup s2)
        ELSE ss2

DsMaxElem == 2   \* the elements are 0..DsMaxElem
DsMaxOps == 2    \* at most DsMaxOps calls of union and makeSet

\* log is the history: the elements of A, then the calls
DsCalls(l) == SelectSeq(l, LAMBDA e : e[1] # "init")

MakeSet(x) ==
    /\ Len(DsCalls(log)) < DsMaxOps
    /\ sets' = makeSet(sets, x)
    /\ log' = Append(log, <<"makeSet", x>>)
    /\ last' = Call("makeSet", x, findSet(makeSet(sets, x), x), NoErr, sets)
    /\ UNCHANGED <<data, config, graphVars, v_props, call, top, size, nodes,
                   labyrinth, lst_in>>

Union(x, y) ==
    /\ Len(DsCalls(log)) < DsMaxOps
    /\ sets' = union(sets, x, y)
    /\ log' = Append(log, <<"union", <<x, y>>>>)
    /\ last' = Call("union", <<x, y>>, <<>>, NoErr, sets)
    /\ UNCHANGED <<data, config, graphVars, v_props, call, top, size, nodes,
                   labyrinth, lst_in>>

InitSets ==
    /\ \E S \in SUBSET (0..DsMaxElem) : \E A \in SetOrders(S) :
          /\ sets = DisjointSetsNew(A)
          /\ log = [i \in 1..Len(A) |-> <<"init", A[i]>>]
    /\ data = <<>> /\ config = TRUE /\ last = NoCall
    /\ GraphIdle /\ CallsIdle
    /\ top = None /\ size = 0 /\ nodes = <<>> /\ ArgsIdle

NextSets ==
    \/ \E x \in 0..DsMaxElem : MakeSet(x)
    \/ \E x \in 0..DsMaxElem, y \in 0..DsMaxElem : Union(x, y)

SpecSets == InitSets /\ [][NextSets]_vars

\* the elements supplied so far, and the pairs given to union
Supplied ==
    UNION {IF e[1] = "union" THEN {e[2][1], e[2][2]} ELSE {e[2]} :
              e \in Range(log)}
UnionPairs == {e[2] : e \in {f \in Range(log) : f[1] = "union"}}

\* the elements linked to those of S by at most k union calls
RECURSIVE LinkedTo(_, _)
LinkedTo(S, k) ==
    IF k = 0 THEN S
    ELSE LinkedTo(S \cup {p[2] : p \in {q \in UnionPairs : q[1] \in S}}
                    \cup {p[1] : p \in {q \in UnionPairs : q[2] \in S}}, k - 1)

Linked(x, y) == y \in LinkedTo({x}, Cardinality(UnionPairs))

\* C24: the stored sets are the equivalence classes of the relation the union
\* calls generate: every element supplied lies in exactly one set, the sets
\* are non-empty and pairwise disjoint, and findSet(x) = findSet(y) exactly
\* when x and y are linked by a chain of union calls.
C24_SetsAreClasses ==
    /\ \A x \in Supplied :
          Cardinality({i \in 1..Len(sets) : x \in sets[i]}) = 1
    /\ \A i \in 1..Len(sets) : sets[i] # {} /\ sets[i] \subseteq Supplied
    /\ \A i, j \in 1..Len(sets) : i # j => sets[i] \cap sets[j] = {}
    /\ \A x, y \in Supplied :
          (findSet(sets, x) = findSet(sets, y)) <=> Linked(x, y)

\* two union calls that chained three elements, one of them not in A
C24_Witness ==
    /\ Cardinality(UnionPairs) = 2
    /\ \E i \in 1..Len(sets) : Cardinality(sets[i]) = 3
    /\ Len(log) = 4
    /\ \A p \in UnionPairs : p[1] # p[2]

-----------------------------------------------------------------------------
(* convert_to_graph of labyrinth_graph.py.  A labyrinth is a function from  *)
(* the row indices 0..rows-1 to rows, each a function from 0..cols-1 to the *)
(* cell's number; the vertex (i, j) is the number Cell(i, j).               *)

GrMaxRows == 3    \* 1..GrMaxRows rows
GrMaxCols == 3    \* 1..GrMaxCols columns
GrMaxWalls == 1   \* at most GrMaxWalls cells hold 0

\* the tuple (i, j); no two cells of a grid share a number
Cell(i, j) == i * (GrMaxCols + 1) + j

\* the neighbours of a cell without the lower one
convert_cell_no_lower(lab, i, j) ==
    LET cols == Cardinality(DOMAIN lab[0])
        north == IF i > 0 /\ lab[i - 1][j] # 0
              THEN <<(<<Cell(i, j), Cell(i - 1, j)>>)>> ELSE <<>>
        west == IF j > 0 /\ lab[i][j - 1] # 0
                THEN <<(<<Cell(i, j), Cell(i, j - 1)>>)>> ELSE <<>>
        east == IF j < cols - 1 /\ lab[i][j + 1] # 0
                 THEN <<(<<Cell(i, j), Cell(i, j + 1)>>)>> ELSE <<>>
    IN  north \o west \o east

\* the relations one non-zero cell appends: upper, lower, left, right
convert_cell(lab, i, j) ==
    LET rows == Cardinality(DOMAIN lab)
        cols == Cardinality(DOMAIN lab[0])
        north == IF i > 0 /\ lab[i - 1][j] # 0
              THEN <<(<<Cell(i, j), Cell(i - 1, j)>>)>> ELSE <<>>
        south == IF i < rows - 1 /\ lab[i + 1][j] # 0
                THEN <<(<<Cell(i, j), Cell(i + 1, j)>>)>> ELSE <<>>
        west == IF j > 0 /\ lab[i][j - 1] # 0
                THEN <<(<<Cell(i, j), Cell(i, j - 1)>>)>> ELSE <<>>
        east == IF j < cols - 1 /\ lab[i][j + 1] # 0
                 THEN <<(<<Cell(i, j), Cell(i, j + 1)>>)>> ELSE <<>>
    IN  north \o south \o west \o east

\* the two nested for loops, from the k-th cell in row-major order on
RECURSIVE convert_loop(_, _, _)
convert_loop(lab, k, g) ==
    LET rows == Cardinality(DOMAIN lab)
        cols == Cardinality(DOMAIN lab[0])
        i == k \div cols
        j == k % cols
    IN  IF k >= rows * cols THEN g
        ELSE IF lab[i][j] # 0
        THEN convert_loop(lab, k + 1,
                 [vertexes |-> Append(g.vertexes, Cell(i, j)),
                  relations |-> g.relations \o convert_cell(lab, i, j)])
        ELSE convert_loop(lab, k + 1, g)

\* convert_to_graph(labyrinth): the arguments of Graph(vertexes, relations)
convert_to_graph(lab) ==
    convert_loop(lab, 0, [vertexes |-> <<>>, relations |-> <<>>])

Walls(lab) ==
    {c \in (DOMAIN lab) \X (DOMAIN lab[0]) : lab[c[1]][c[2]] = 0}

Labyrinths ==
    UNION {{lab \in [0..(r - 1) -> [0..(c - 1) -> 0..1]] :
               Cardinality(Walls(lab)) <= GrMaxWalls} :
           <<r, c>> \in (1..GrMaxRows) \X (1..GrMaxCols)}

\* graph = convert_to_graph(laberinto), then one bfs
InitGrid ==
    /\ \E lab \in Labyrinths :
          /\ labyrinth = lab
          /\ Lab_GraphNew(convert_to_graph(lab).vertexes,
                          convert_to_graph(lab).relations, TRUE, TRUE)
    /\ HeapIdle /\ CallsIdle
    /\ top = None /\ size = 0 /\ nodes = <<>> /\ sets = <<>> /\ lst_in = <<>>

SpecGrid == InitGrid /\ [][NextLab]_vars

GridCells == (DOMAIN labyrinth) \X (DOMAIN labyrinth[0])
Adjacent4(a, b) ==
    \/ a[1] = b[1] /\ (a[2] = b[2] + 1 \/ b[2] = a[2] + 1)
    \/ a[2] = b[2] /\ (a[1] = b[1] + 1 \/ b[1] = a[1] + 1)

\* C21: for a grid whose cells are all non-zero, convert_to_graph yields one
\* vertex per cell and a relation in both directions between every pair of
\* 4-adjacent cells, and bfs from (0,0) returns distance[(i,j)] = i + j for
\* every cell.
C21_GridBfs ==
    Walls(labyrinth) = {} =>
        /\ Len(vertexes) = Cardinality(GridCells)
        /\ Range(vertexes) = {Cell(c[1], c[2]) : c \in GridCells}
        /\ \A a \in GridCells, b \in GridCells :
              Adjacent4(a, b) =>
                  /\ <<Cell(a[1], a[2]), Cell(b[1], b[2])>> \in Range(relations)
                  /\ <<Cell(b[1], b[2]), Cell(a[1], a[2])>> \in Range(relations)
        /\ (At_(1, "lab_bfs", "done") /\ call[1].src = Cell(0, 0)) =>
              \A c \in GridCells :
                  call[1].ret[Cell(c[1], c[2])].distance = c[1] + c[2]

\* the 3x3 grid without a wall, after bfs from (0,0): (2,2) is at distance 4
C21_Witness ==
    /\ Walls(labyrinth) = {}
    /\ Cardinality(DOMAIN labyrinth) = 3 /\ Cardinality(DOMAIN labyrinth[0]) = 3
    /\ At_(1, "lab_bfs", "done") /\ call[1].src = Cell(0, 0)
    /\ call[1].ret[Cell(2, 2)].distance = 4

-----------------------------------------------------------------------------
(* heapSort of heap_priority_queue.py and of graph_heap_pq.py.  Both build  *)
(* their heap from a copy of the list (Heap.__init__: self.build(data[:])), *)
(* so the list of the caller is no object the call writes to.               *)

\* a loop that appends what it dequeues
RECURSIVE hpq_heapSortLoop_append(_, _)
hpq_heapSortLoop_append(d, result) ==
    IF Len(d) = 0 THEN result
    ELSE hpq_heapSortLoop_append(hpq_dequeue(TRUE, d), Append(result, peek(d)))

\* while len(pq) > 0: result.insert(0, pq.dequeue())
RECURSIVE hpq_heapSortLoop(_, _)
hpq_heapSortLoop(d, result) ==
    IF Len(d) = 0 THEN result
    ELSE hpq_heapSortLoop(hpq_dequeue(TRUE, d), <<peek(d)>> \o result)

\* heapSort(lst) of heap_priority_queue.py: pq = PriorityQueue(lst)
hpq_heapSort(l) == hpq_heapSortLoop(hpq_HeapNew(TRUE, l), <<>>)

\* while len(heap) > 0: result.append(heap.peek()); heap.delete(heap.peek())
RECURSIVE heapSortLoop(_, _, _)
heapSortLoop(cfg, d, result) ==
    IF Len(d) = 0 THEN result
    ELSE heapSortLoop(cfg, delete(cfg, d, peek(d)), Append(result, peek(d)))

\* heapSort(lst, config) of graph_heap_pq.py: heap = Heap(lst, config)
heapSort(l, cfg) == heapSortLoop(cfg, HeapNew(cfg, l), <<>>)

SortMaxLen == 4   \* the list has at most SortMaxLen elements

hpq_HeapSort ==
    /\ last' = Call("hpq_heapSort", <<lst_in>>, hpq_heapSort(lst_in), NoErr, lst_in)
    /\ lst_in' = lst_in    \* the heap was built from the copy data[:]
    /\ UNCHANGED <<data, config, log, graphVars, v_props, call, top, size, nodes,
                   sets, labyrinth>>

HeapSort(cfg) ==
    /\ last' = Call("heapSort", <<lst_in, cfg>>, heapSort(lst_in, cfg), NoErr, lst_in)
    /\ lst_in' = lst_in    \* the heap was built from the copy data[:]
    /\ UNCHANGED <<data, config, log, graphVars, v_props, call, top, size, nodes,
                   sets, labyrinth>>

InitSort ==
    /\ lst_in \in SeqUpTo(Elems, SortMaxLen)
    /\ HeapIdle /\ GraphIdle /\ CallsIdle
    /\ top = None /\ size = 0 /\ nodes = <<>> /\ sets = <<>> /\ labyrinth = <<>>

NextSort ==
    \/ hpq_HeapSort
    \/ \E cfg \in BOOLEAN : HeapSort(cfg)

SpecSort == InitSort /\ [][NextSort]_vars

Ascending(r) == \A i \in 1..Len(r), j \in 1..Len(r) : i < j => ~Lt(r[j], r[i])
Descending(r) == \A i \in 1..Len(r), j \in 1..Len(r) : i < j => ~Lt(r[i], r[j])

\* C22: each heapSort returns a sorted permutation of its input list and
\* leaves the input list as it was: ascending for heap_priority_queue.heapSort
\* and for graph_heap_pq.heapSort with config=False, descending with
\* config=True.
C22_HeapSort ==
    /\ last.op = "hpq_heapSort" =>
          /\ IsPermutation(last.ret, last.prev) /\ Ascending(last.ret)
          /\ lst_in = last.prev
    /\ last.op = "heapSort" =>
          /\ IsPermutation(last.ret, last.prev)
          /\ IF last.arg[2] THEN Descending(last.ret) ELSE Ascending(last.ret)
          /\ lst_in = last.prev

\* a list of three distinct elements, not in order either way, was sorted
C22_Witness ==
    /\ last.op \in {"hpq_heapSort", "heapSort"}
    /\ Len(lst_in) >= 3 /\ Cardinality(Range(last.ret)) = 3
    /\ ~Ascending(lst_in) /\ ~Descending(lst_in)

-----------------------------------------------------------------------------
(* The loop of dijkstraP *)

\* C25: in every iteration of the dijkstraP loop the pair that dequeue
\* removes (the root of the queue's array) has the least distance among the
\* pairs the queue holds at that moment.
C25_DequeueLeast ==
    (At_(1, "dijkstraP", "while") /\ call[1].QS # <<>>) =>
        \A e \in Range(call[1].QS) : e[1] >= dequeueRet(call[1].QS)[1]

\* one dijkstraP of a directed weighted Graph, running to its return
DjNumV == 3      \* vertices 0..DjNumV-1
DjMaxRel == 2    \* at most DjMaxRel relations
DjMaxW == 1      \* weights 0..DjMaxW

InitDj ==
    /\ \E e \in SeqUpTo(WRelations(DjNumV, 0..DjMaxW), DjMaxRel) :
          GraphNew(Vertices(DjNumV, 0), e, TRUE, TRUE)
    /\ HeapIdle /\ CallsIdle /\ OtherIdle

NextDj ==
    \/ \E s \in Range(vertexes) : DijkstraP(1, s)
    \/ DijkstraPDequeue(1)
    \/ DijkstraPRelax(1)
    \/ DijkstraPReturn(1)

SpecDj == InitDj /\ [][NextDj]_vars

\* a call that has started takes its next step
SpecDjFair ==
    SpecDj /\ WF_vars(DijkstraPDequeue(1) \/ DijkstraPRelax(1) \/ DijkstraPReturn(1))

\* the vertices whose in_queue flag is true
Queued(c) == {v \in DOMAIN c.in_queue : c.in_queue[v]}

\* C26: at every point of a dijkstraP run on a graph with unique vertices the
\* queue holds exactly one entry for each vertex whose in_queue flag is true
\* and none for a dequeued vertex, the entry of a queued vertex v is
\* (distance[v], v), and the update a relaxation is about to issue finds the
\* entry it replaces.
C26_QueueMatchesFlags ==
    (call[1].kind = "dijkstraP" /\ call[1].pc \in {"while", "for", "done"}) =>
        /\ Len(call[1].QS) = Cardinality(Queued(call[1]))
        /\ Range(call[1].QS) =
              {<<v_props[v].distance, v>> : v \in Queued(call[1])}
        /\ call[1].pc = "for" =>
              LET neighbor == Head(call[1].rest)[1]
                  w == Head(call[1].rest)[2]
              IN  (/\ v_props[neighbor].distance >
                         Plus(v_props[call[1].u].distance, w)
                   /\ call[1].in_queue[neighbor]) =>
                      Contains(call[1].QS, <<v_props[neighbor].distance, neighbor>>)

\* two vertices are dequeued and a queued vertex holds the finite positive
\* distance an update wrote
C26_Witness ==
    /\ At_(1, "dijkstraP", "while")
    /\ \E e \in Range(call[1].QS) : e[1] > 0 /\ e[1] < INF
    /\ Cardinality(Queued(call[1])) = Len(vertexes) - 2

\* C27: dijkstraP terminates on every finite graph with unique vertices and a
\* source in the graph; every dequeue takes one entry off the queue and
\* clears the flag of a vertex that was still queued, so the loop performs
\* exactly n dequeues, one per vertex; a relaxation leaves the number of
\* queue entries as it was.
C27_Terminates ==
    /\ [][(At_(1, "dijkstraP", "while") /\ call[1]'.pc # "done") =>
             /\ Len(call[1]'.QS) = Len(call[1].QS) - 1
             /\ call[1].in_queue[call[1]'.u]
             /\ Queued(call[1]') = Queued(call[1]) \ {call[1]'.u}]_vars
    /\ [][At_(1, "dijkstraP", "for") =>
             /\ Len(call[1]'.QS) = Len(call[1].QS)
             /\ Queued(call[1]') = Queued(call[1])]_vars
    /\ [](At_(1, "dijkstraP", "done") => Queued(call[1]) = {})
    /\ (call[1].kind = "dijkstraP") ~> At_(1, "dijkstraP", "done")

\* a run over three vertices has returned after reaching all of them
C27_Witness ==
    /\ At_(1, "dijkstraP", "done")
    /\ Len(vertexes) = 3
    /\ \A v \in Range(vertexes) : call[1].ret[v].distance < INF

-----------------------------------------------------------------------------
(* The loop of bfs on the Graph of labyrinth_graph.py *)

ColourRank(colour) == IF colour = WHITE THEN 0 ELSE IF colour = GRAY THEN 1 ELSE 2

\* bfs is running: the table is built and the call has not returned
LabBfsRuns == call[1].kind = "lab_bfs" /\ call[1].pc \in {"while", "for"}

\* C28: during bfs on the Graph of labyrinth_graph.py (adjacency-list view)
\* a colour only moves white -> gray -> black; every vertex in the queue is
\* gray and every gray vertex is in the queue or is the vertex being
\* processed; a vertex enters the queue at most once (it is white when it is
\* appended and the queue never holds it twice); at the return every vertex
\* reachable from the source is black and every other one is white with
\* parent None.
C28_BfsColours ==
    /\ [][LabBfsRuns =>
             \A v \in Range(vertexes) :
                 ColourRank(v_props'[v].color) >= ColourRank(v_props[v].color)]_vars
    /\ [][(LabBfsRuns /\ Len(call[1]'.queue) > Len(call[1].queue)) =>
             LET v == call[1]'.queue[Len(call[1]'.queue)]
             IN  /\ call[1]'.queue = Append(call[1].queue, v)
                 /\ v_props[v].color = WHITE /\ v_props'[v].color = GRAY]_vars
    /\ [](LabBfsRuns =>
             /\ \A i \in 1..Len(call[1].queue) :
                   /\ v_props[call[1].queue[i]].color = GRAY
                   /\ \A j \in 1..Len(call[1].queue) :
                         call[1].queue[i] = call[1].queue[j] => i = j
             /\ \A v \in Range(vertexes) :
                   v_props[v].color = GRAY =>
                       \/ v \in Range(call[1].queue)
                       \/ call[1].pc = "for" /\ v = call[1].u)
    /\ [](At_(1, "lab_bfs", "done") =>
             \A v \in Range(vertexes) :
                 IF ShortestFrom(call[1].src, TRUE)[v] < INF
                 THEN call[1].ret[v].color = BLACK
                 ELSE /\ call[1].ret[v].color = WHITE
                      /\ call[1].ret[v].parent = None)

\* a finished bfs that left a vertex white and reached a neighbour, on a
\* graph with an edge back into the source
C28_Witness ==
    /\ At_(1, "lab_bfs", "done")
    /\ \E v \in Range(vertexes) : call[1].ret[v].color = WHITE
    /\ \E v \in Range(vertexes) : call[1].ret[v].distance = 1
    /\ \E r \in Range(relations) : r[1] # call[1].src /\ r[2] = call[1].src

-----------------------------------------------------------------------------
(* getPath of labyrinth_graph.py, on the table a bfs returned *)

\* a loop that puts the parent behind the path
RECURSIVE Lab_getPathLoop_appends(_, _, _, _)
Lab_getPathLoop_appends(path, current, vp, fuel) ==
    IF vp[current].parent = None \/ fuel = 0 THEN path
    ELSE Lab_getPathLoop_appends(Append(path, vp[current].parent),
                                 vp[current].parent, vp, fuel - 1)

\* while v_props[current]['parent'] is not None: path.insert(0, parent);
\* current = parent.  A chain longer than the table goes round a cycle; the
\* action below is not taken then.
RECURSIVE Lab_getPathLoop(_, _, _, _)
Lab_getPathLoop(path, current, vp, fuel) ==
    IF vp[current].parent = None \/ fuel = 0 THEN path
    ELSE Lab_getPathLoop(<<vp[current].parent>> \o path,
                         vp[current].parent, vp, fuel - 1)

Lab_getPath(vertex, vp) ==
    Lab_getPathLoop(<<vertex>>, vertex, vp, Cardinality(DOMAIN vp))

\* getPath(target, table) on the table that call r returned
Lab_GetPath(r, target) ==
    /\ call[r].pc = "done"
    /\ getPathReturns(target, call[r].ret)
    /\ last' = Call("lab_getPath", target, Lab_getPath(target, call[r].ret),
                    getPathErr(target, call[r].ret), call[r].ret)
    /\ UNCHANGED <<data, config, log, graphVars, v_props, call, otherVars>>

NextLabPath ==
    \/ NextLab
    \/ \E t \in Range(vertexes) : Lab_GetPath(1, t)

SpecLabPath == InitLab /\ [][NextLabPath]_vars

\* C29: after bfs(s) on the Graph of labyrinth_graph.py (adjacency-list view),
\* for every reached vertex v, getPath(v, table) starts at s, ends at v, holds
\* distance[v] + 1 vertices, and every consecutive pair is a relation of the
\* graph.
C29_PathFollowsRelations ==
    (last.op = "lab_getPath" /\ last.prev[last.arg].distance < INF) =>
        /\ last.err = NoErr
        /\ Len(last.ret) = last.prev[last.arg].distance + 1
        /\ last.ret[1] = call[1].src
        /\ last.ret[Len(last.ret)] = last.arg
        /\ \A i \in 1..(Len(last.ret) - 1) :
              <<last.ret[i], last.ret[i + 1]>> \in Range(relations)

\* the path to a vertex two edges from the source
C29_Witness ==
    /\ last.op = "lab_getPath"
    /\ last.prev[last.arg].distance = 2
    /\ Len(last.ret) = 3

-----------------------------------------------------------------------------
(* Graph.dfs and Graph.dfs_visit of labyrinth_graph.py *)

\* self._buildVProps(); time = 0
Lab_dfs_init ==
    St(Lab_buildVProps(vertexes, None),
       [Idle EXCEPT !.pc = "loop", !.kind = "lab_dfs"])

RECURSIVE Lab_dfs_visit(_, _, _)
RECURSIVE Lab_dfs_visit_for(_, _, _, _)

\* a dfs_visit that does not advance the time before it records final
Lab_dfs_visit_no_tick(vp, vertex, time) ==
    LET vp1 == [vp EXCEPT ![vertex].distance = time + 1,
                          ![vertex].color = GRAY]
        r == Lab_dfs_visit_for(vp1, vertex, time + 1,
                               Lab_getNeighbors(view, vertex))
    IN  [vp |-> [r.vp EXCEPT ![vertex] =
                    [color |-> BLACK, distance |-> @.distance,
                     parent |-> @.parent, final |-> r.time]],
         time |-> r.time]

\* dfs_visit(vertex, time): the table and the time it returns
Lab_dfs_visit(vp, vertex, time) ==
    LET vp1 == [vp EXCEPT ![vertex].distance = time + 1,
                          ![vertex].color = GRAY]
        r == Lab_dfs_visit_for(vp1, vertex, time + 1,
                               Lab_getNeighbors(view, vertex))
    IN  [vp |-> [r.vp EXCEPT ![vertex] =
                    [color |-> BLACK, distance |-> @.distance,
                     parent |-> @.parent, final |-> r.time + 1]],
         time |-> r.time + 1]

\* what is left of the for loop over the neighbours of vertex
Lab_dfs_visit_for(vp, vertex, time, nbs) ==
    IF nbs = <<>> THEN [vp |-> vp, time |-> time]
    ELSE LET neighbor == Head(nbs)
         IN  IF vp[neighbor].color = WHITE
             THEN LET r == Lab_dfs_visit([vp EXCEPT ![neighbor].parent = vertex],
                                         neighbor, time)
                  IN  Lab_dfs_visit_for(r.vp, vertex, r.time, Tail(nbs))
             ELSE Lab_dfs_visit_for(vp, vertex, time, Tail(nbs))

\* for v in self.vertexes: if white: time = self.dfs_visit(v, time)
RECURSIVE Lab_dfs_loop(_, _, _)
Lab_dfs_loop(vp, vs, time) ==
    IF vs = <<>> THEN vp
    ELSE IF vp[Head(vs)].color = WHITE
         THEN LET r == Lab_dfs_visit(vp, Head(vs), time)
              IN  Lab_dfs_loop(r.vp, Tail(vs), r.time)
         ELSE Lab_dfs_loop(vp, Tail(vs), time)

\* the loop of dfs and its return
Lab_dfs_run(vp, c) ==
    LET vp1 == Lab_dfs_loop(vp, vertexes, 0)
    IN  St(vp1, [c EXCEPT !.pc = "done", !.ret = vp1])

Lab_Dfs(r) ==
    /\ call[r].pc = "idle"
    /\ Apply(r, Lab_dfs_init)

Lab_DfsRun(r) ==
    /\ At_(r, "lab_dfs", "loop")
    /\ Apply(r, Lab_dfs_run(v_props, call[r]))

\* one dfs of a Graph of either file, with the adjacency-list view
FNumV == 3       \* vertices 0..FNumV-1
FMaxRel == 3     \* at most FMaxRel relations

\* the instance is a Graph of graph_heap_pq.py: its relations carry a weight
OfGraphHeapPq == \A e \in Range(relations) : Len(e) = 3
\* the instance is a Graph of labyrinth_graph.py
OfLabyrinthGraph == \A e \in Range(relations) : Len(e) = 2

InitDfs ==
    /\ \/ \E e \in SeqUpTo(WRelations(FNumV, {1}), FMaxRel) :
             GraphNew(Vertices(FNumV, 0), e, TRUE, TRUE)
       \/ \E e \in SeqUpTo(LabRelations(FNumV, 0), FMaxRel) :
             Lab_GraphNew(Vertices(FNumV, 0), e, TRUE, TRUE)
    /\ HeapIdle /\ CallsIdle /\ OtherIdle

NextDfs ==
    \/ OfGraphHeapPq /\ Dfs(1)
    \/ DfsRun(1)
    \/ OfLabyrinthGraph /\ Lab_Dfs(1)
    \/ Lab_DfsRun(1)

SpecDfs == InitDfs /\ [][NextDfs]_vars

\* the discovery and finish times of a table
DfsTimes(vp) == [i \in 1..(2 * Cardinality(DOMAIN vp)) |->
                    {v \in DOMAIN vp : vp[v].distance = i \/ vp[v].final = i}]

\* C30: after dfs() on a graph with n unique vertices (either Graph class,
\* adjacency-list view) every vertex is black and has a discovery time
\* (distance) and a finish time (final); the 2n times are exactly 1..2n, each
\* used once, and distance[v] < final[v] for every v.
C30_DfsTimes ==
    (call[1].pc = "done" /\ call[1].kind \in {"dfs", "lab_dfs"}) =>
        /\ \A v \in Range(vertexes) :
              /\ call[1].ret[v].color = BLACK
              /\ "final" \in DOMAIN call[1].ret[v]
              /\ call[1].ret[v].distance \in 1..(2 * Len(vertexes))
              /\ call[1].ret[v].final \in 1..(2 * Len(vertexes))
              /\ call[1].ret[v].distance < call[1].ret[v].final
        /\ \A i \in 1..(2 * Len(vertexes)) :
              Cardinality(DfsTimes(call[1].ret)[i]) = 1

\* a dfs of labyrinth_graph.py whose first tree holds all three vertices,
\* one of them a leaf visited from a child of the root
C30_Witness ==
    /\ At_(1, "lab_dfs", "done")
    /\ \E v \in Range(vertexes) : call[1].ret[v].final = 6
    /\ \E v \in Range(vertexes) :
          /\ call[1].ret[v].parent # None
          /\ call[1].ret[call[1].ret[v].parent].parent # None

-----------------------------------------------------------------------------
(* The forest of dfs *)

\* the vertices whose visit the loop of dfs starts (graph_heap_pq.py)
RECURSIVE dfs_loop_roots(_, _, _)
dfs_loop_roots(vp, vs, time) ==
    IF vs = <<>> THEN {}
    ELSE IF vp[Head(vs)].color = WHITE
         THEN LET r == dfs_visit(vp, Head(vs), time)
              IN  {Head(vs)} \cup dfs_loop_roots(r.vp, Tail(vs), r.time)
         ELSE dfs_loop_roots(vp, Tail(vs), time)

\* the same for labyrinth_graph.py
RECURSIVE Lab_dfs_loop_roots(_, _, _)
Lab_dfs_loop_roots(vp, vs, time) ==
    IF vs = <<>> THEN {}
    ELSE IF vp[Head(vs)].color = WHITE
         THEN LET r == Lab_dfs_visit(vp, Head(vs), time)
              IN  {Head(vs)} \cup Lab_dfs_loop_roots(r.vp, Tail(vs), r.time)
         ELSE Lab_dfs_loop_roots(vp, Tail(vs), time)

\* the roots of the dfs that call 1 has run
DfsRoots ==
    IF call[1].kind = "dfs"
    THEN dfs_loop_roots(buildVProps(vertexes, None), vertexes, 0)
    ELSE Lab_dfs_loop_roots(Lab_buildVProps(vertexes, None), vertexes, 0)

\* (p, v) is a relation of the graph
IsRelation(p, v) == \E e \in Range(relations) : e[1] = p /\ e[2] = v

\* C31: after dfs() (either Graph class, adjacency-list view) the intervals
\* form a forest: for every v with parent p, (p, v) is a relation and
\* distance[p] < distance[v] < final[v] < final[p]; two intervals are
\* disjoint or one strictly contains the other; and parent is None exactly
\* for the vertices whose visit the loop of dfs started.
C31_DfsForest ==
    (call[1].pc = "done" /\ call[1].kind \in {"dfs", "lab_dfs"}) =>
        LET t == call[1].ret
        IN  /\ \A v \in Range(vertexes) :
                  t[v].parent # None =>
                      /\ IsRelation(t[v].parent, v)
                      /\ t[t[v].parent].distance < t[v].distance
                      /\ t[v].distance < t[v].final
                      /\ t[v].final < t[t[v].parent].final
            /\ \A u \in Range(vertexes), v \in Range(vertexes) :
                  u # v =>
                      \/ t[u].final < t[v].distance
                      \/ t[v].final < t[u].distance
                      \/ t[u].distance < t[v].distance /\ t[v].final < t[u].final
                      \/ t[v].distance < t[u].distance /\ t[u].final < t[v].final
            /\ \A v \in Range(vertexes) :
                  (t[v].parent = None) <=> (v \in DfsRoots)

\* a dfs of graph_heap_pq.py that left two trees, one of them with a child
C31_Witness ==
    /\ At_(1, "dfs", "done")
    /\ Cardinality(DfsRoots) = 2
    /\ \E v \in Range(vertexes) : call[1].ret[v].parent # None

-----------------------------------------------------------------------------
(* The representations of a Graph of graph_heap_pq.py after construction *)

\* C32: every traversal (bfs, dfs, dijkstraP), whether it completes or
\* fails, leaves the vertex list, the relations, the adjacency list, the
\* adjacency matrix, the encoder, the decoder and the weight lookup as the
\* construction left them.
C32_TraversalKeepsGraph ==
    /\ [][graphVars' = graphVars]_vars
    /\ [](/\ adjList = buildAdjList(vertexes, relations)
          /\ encoder = buildEncoder(vertexes)
          /\ decoder = buildDecoder(vertexes)
          /\ adjMat = buildAdjMatrix(vertexes, encoder, relations)
          /\ weight = buildWeight(relations))

\* a finished dijkstraP and a failed bfs on a graph with a relation
C32_Witness ==
    /\ relations # <<>>
    /\ \E r \in Runs : At_(r, "dijkstraP", "done")
    /\ \E r \in Runs : At_(r, "bfs", "raised")

\* C33: in a weighted Graph of graph_heap_pq.py built from unique vertices
\* (directed or not, parallel edges allowed) (u, v) is a key of the weight
\* lookup exactly when adjList[u] has an entry for v, the matrix cell of
\* (u, v) is the lookup's weight where the key exists and 0 elsewhere, and
\* encoder and decoder are inverse bijections with encode(vertexes[i]) = i.
C33_StructuresAgree ==
    /\ \A u \in Range(vertexes), v \in Range(vertexes) :
          /\ (<<u, v>> \in DOMAIN weight) <=>
                 (\E n \in Range(adjList[u]) : n[1] = v)
          /\ adjMat[encoder[u]][encoder[v]] =
                 IF <<u, v>> \in DOMAIN weight THEN weight[<<u, v>>] ELSE 0
    /\ DOMAIN weight \subseteq Range(vertexes) \X Range(vertexes)
    /\ DOMAIN encoder = Range(vertexes)
    /\ DOMAIN decoder = 0..(Len(vertexes) - 1)
    /\ \A i \in 0..(Len(vertexes) - 1) :
          encoder[At(vertexes, i)] = i /\ decoder[i] = At(vertexes, i)

\* an undirected graph built from two parallel edges of different weights
C33_Witness ==
    /\ ~directed
    /\ \E a \in Range(relations), b \in Range(relations) :
          a[1] = b[1] /\ a[2] = b[2] /\ a[1] # a[2] /\ a[3] # b[3]

-----------------------------------------------------------------------------
(* Heap.build of graph_heap_pq.py on an existing heap *)

\* heap.build(l)
Build(l) ==
    /\ data' = build(config, data, l)
    /\ last' = Call("build", l, <<>>, NoErr, data)
    /\ UNCHANGED <<config, log, graphVars, v_props, call, otherVars>>

NextBuild == \E l \in SeqUpTo(Elems, MaxHeap) : Build(l)

SpecBuild == InitHeap /\ [][NextBuild]_vars

\* C34: after Heap(L) or build(L) on an existing heap the heap holds exactly
\* the multiset of the elements of L, for every L, the empty list included,
\* and the configured heap property holds at every index.
C34_BuildReplaces ==
    last.op = "build" =>
        /\ IsPermutation(data, last.arg)
        /\ HeapProperty(config, data)

-----------------------------------------------------------------------------
(* What getAdjList() and getAdjMatrix() of graph_heap_pq.py hand out.  Both *)
(* return the attribute itself (return self.adjList, return self.adjMat),   *)
(* so a write of the caller through the returned object is a write to the   *)
(* attribute of the graph.                                                  *)

AMaxWrites == 1  \* the caller writes at most AMaxWrites times (log counts them)

\* getAdjList()
GetAdjList ==
    /\ last' = Call("getAdjList", <<>>, adjList, NoErr, <<>>)
    /\ UNCHANGED <<data, config, log, graphVars, v_props, call, otherVars>>

\* the caller: g.getAdjList()[u].append(n)
CallerAppends(u, n) ==
    /\ last.op = "getAdjList"
    /\ Len(log) < AMaxWrites
    /\ adjList' = [adjList EXCEPT ![u] = Append(@, n)]
    /\ last' = Call("append", <<u, n>>, <<>>, NoErr,
                    [adjList |-> adjList, adjMat |-> adjMat])
    /\ log' = Append(log, <<"append", u>>)
    /\ UNCHANGED <<data, config, vertexes, relations, directed, view,
                   encoder, decoder, adjMat, weight, v_props, call, otherVars>>

\* the caller: g.getAdjMatrix()[i][j] = w
CallerSetsCell(i, j, w) ==
    /\ last.op = "getAdjMatrix"
    /\ Len(log) < AMaxWrites
    /\ adjMat' = [adjMat EXCEPT ![i][j] = w]
    /\ last' = Call("setCell", <<i, j, w>>, <<>>, NoErr,
                    [adjList |-> adjList, adjMat |-> adjMat])
    /\ log' = Append(log, <<"setCell", i>>)
    /\ UNCHANGED <<data, config, vertexes, relations, directed, view,
                   encoder, decoder, adjList, weight, v_props, call, otherVars>>

NextAlias ==
    \/ GetAdjList
    \/ GetAdjMatrix
    \/ \E v \in Range(vertexes) : GetNeighbors(v)
    \/ \E u \in Range(vertexes), n \in Range(vertexes), w \in 0..GMaxW :
          CallerAppends(u, <<n, w>>)
    \/ \E i \in 0..(Len(vertexes) - 1), j \in 0..(Len(vertexes) - 1),
          w \in 0..GMaxW : CallerSetsCell(i, j, w)

SpecAlias == InitGraph /\ [][NextAlias]_vars

\* C35: a change the caller makes to an adjacency list or matrix that
\* getAdjList() or getAdjMatrix() returned does not change what getNeighbors,
\* getAdjList and getAdjMatrix observe afterwards.
C35_ReturnsSnapshots ==
    last.op \in {"append", "setCell"} =>
        /\ \A v \in Range(vertexes) : getNeighbors(v) = last.prev.adjList[v]
        /\ adjList = last.prev.adjList
        /\ adjMat = last.prev.adjMat

-----------------------------------------------------------------------------
(* Interleaved enqueue and dequeue on a PriorityQueue of graph_heap_pq.py *)

\* C36: for any interleaving of enqueue and dequeue calls (no update) every
\* dequeue returns an extreme element of the contents at that moment
\* (greatest for config=True, least for config=False) and removes exactly
\* one occurrence of it.
C36_DequeueExtreme ==
    (last.op = "dequeue" /\ last.err = NoErr) =>
        /\ Extreme(config, last.prev, last.ret)
        /\ IsPermutation(Append(data, last.ret), last.prev)

\* a dequeue from two elements, after an earlier dequeue and a later enqueue
C36_Witness ==
    /\ last.op = "dequeue" /\ last.err = NoErr
    /\ Len(last.prev) = 2
    /\ Len(log) = 5
    /\ log[2][1] = "deq"
    /\ log[1][2] # log[3][2]

-----------------------------------------------------------------------------
(* The distances of dijkstraP are weights of paths of the graph *)

\* the simple paths from s, each as <<end vertex, total weight, vertices on it>>
RECURSIVE PathsFrom(_, _)
PathsFrom(paths, k) ==
    IF k = 0 THEN paths
    ELSE PathsFrom(paths \cup
            {<<e[2], Plus(p[2], e[3]), p[3] \cup {e[2]}>> :
                <<p, e>> \in {x \in paths \X Range(relations) :
                                /\ x[2][1] = x[1][1]
                                /\ x[2][2] \notin x[1][3]}},
            k - 1)

PathWeights(s, v) ==
    {p[2] : p \in {x \in PathsFrom({<<s, 0, {s}>>}, Len(vertexes) - 1) :
                      x[1] = v}}

\* C37: at every point of a dijkstraP run on a graph with weights >= 0 every
\* finite distance[v] is the total weight of a path from the source to v;
\* hence no distance is below the true shortest distance and no vertex that
\* is unreachable from the source has a finite distance.
C37_DistancesArePathWeights ==
    (call[1].kind = "dijkstraP" /\ call[1].pc \in {"while", "for", "done"}) =>
        \A v \in Range(vertexes) :
            /\ v_props[v].distance < INF =>
                  v_props[v].distance \in PathWeights(call[1].src, v)
            /\ v_props[v].distance >= ShortestFrom(call[1].src, FALSE)[v]
            /\ PathWeights(call[1].src, v) = {} => v_props[v].distance = INF

\* a run has returned with one vertex two relations away from the source,
\* or with one vertex reached by a relation and one left unreachable
C37_Witness ==
    /\ At_(1, "dijkstraP", "done")
    /\ \E v \in Range(vertexes) :
          /\ v_props[v].distance > 0 /\ v_props[v].distance < INF
          /\ v_props[v].parent # None
    /\ \E v \in Range(vertexes) : v_props[v].distance = INF

-----------------------------------------------------------------------------
(* The parents dijkstraP returns against the distances it returns *)

\* the total weight of the path getPath builds for target from the table,
\* each step priced by a relation that accounts for the distances
ParentAccounts(vp, v) ==
    \E e \in Range(relations) :
        /\ e[1] = vp[v].parent /\ e[2] = v
        /\ vp[v].distance = Plus(vp[vp[v].parent].distance, e[3])

\* one dijkstraP of a directed weighted Graph whose relations join distinct
\* vertices and are listed in order, running to its return
RNumV == 4       \* vertices 0..RNumV-1
RMaxRel == 4     \* at most RMaxRel relations
RMaxW == 1       \* weights 0..RMaxW

\* relation x is listed before relation y: by tail, then head, then weight
ListedBefore(x, y) ==
    \/ x[1] < y[1]
    \/ x[1] = y[1] /\ x[2] < y[2]
    \/ x[1] = y[1] /\ x[2] = y[2] /\ x[3] < y[3]

\* the relation lists given in that order, no relation twice
InitRelax ==
    /\ \E e \in {l \in SeqUpTo({x \in WRelations(RNumV, 0..RMaxW) :
                                    x[1] # x[2]}, RMaxRel) :
                    \A i \in 1..(Len(l) - 1) : ListedBefore(l[i], l[i + 1])} :
          GraphNew(Vertices(RNumV, 0), e, TRUE, TRUE)
    /\ HeapIdle /\ CallsIdle /\ OtherIdle

SpecRelax == InitRelax /\ [][NextDj]_vars

\* C38: when dijkstraP terminates on a graph with weights >= 0, for every
\* vertex v with parent p not None the graph has a relation (p, v, w) with
\* distance[v] = distance[p] + w, so the total weight of the path
\* getPath(v, table) returns equals distance[v].
C38_ParentsMatchDistances ==
    At_(1, "dijkstraP", "done") =>
        \A v \in Range(vertexes) :
            call[1].ret[v].parent # None => ParentAccounts(call[1].ret, v)

-----------------------------------------------------------------------------
(* The parent links of the tables bfs and dijkstraP of graph_heap_pq.py return *)

\* C39: in the table bfs(s) or dijkstraP(s) returns on a weighted Graph with
\* weights >= 0 (self-loops and cycles allowed) the parent links contain no
\* cycle and parent[s] is None, so getPath(v, table) terminates for every
\* vertex v and, for every reached v, returns a sequence beginning at s.
C39_ParentLinksAcyclic ==
    (call[1].kind \in {"bfs", "dijkstraP"} /\ call[1].pc = "done") =>
        /\ call[1].ret[call[1].src].parent = None
        /\ \A v \in Range(vertexes) :
              /\ getPathReturns(v, call[1].ret)
              /\ call[1].ret[v].distance < INF =>
                    Head(getPath(v, call[1].ret)) = call[1].src

=============================================================================
